---------------------------- MODULE Spec2Model ----------------------------
(***************************************************************************)
(* Model of the sales/attendance CSV pipeline of the SalesAnalyzer         *)
(* component: the two parsers, the two mergers, the date filter, the       *)
(* consolidation, and the upload / reset handlers that own the two lists   *)
(* of loaded files.                                                        *)
(*                                                                         *)
(* Two revisions of the component are in the repository and both are       *)
(* modelled; `revision` selects one in Init and never changes:             *)
(*   "slots" - src/src/components/sales-analyzer.tsx: one attendance input *)
(*             and one sales input, one file per upload, date filter,      *)
(*             resetData;                                                  *)
(*   "batch" - src/unnamed/part_002: one input with `multiple`, the        *)
(*             dialect is sniffed from the text, all files of a batch are  *)
(*             appended together when every read has settled.              *)
(*                                                                         *)
(* Representation.                                                         *)
(*  - A JavaScript string is a sequence of one-character strings.          *)
(*  - A JavaScript number is an exact rational [n, d] in lowest terms with *)
(*    d > 0 (floating-point rounding is not modelled); NaN is [0, 0].      *)
(*    Counts that the code only ever adds up are kept as TLA+ integers.    *)
(*  - A Date is a number of hours since 1970-01-01 00:00 local time: only  *)
(*    day starts and day ends (23:59:59.999, kept as hour 23) occur.       *)
(*  - A thrown Error is a result record with ok = FALSE.                   *)
(*                                                                         *)
(* Scheduling.                                                             *)
(*  - A FileReader settles in a later task, so a handler that starts a read *)
(*    and the reader's onload / onerror are separate steps, and reads that *)
(*    are in flight settle in any order.                                   *)
(*  - The handlers are modelled as the functions they are: the inputs'     *)
(*    `disabled={isLoading}` attribute belongs to the rendered page and is *)
(*    not a guard of handleFileUpload, so an upload can start while        *)
(*    another read is in flight.                                           *)
(*  - In "batch" the callback of Promise.all runs in the step of the last  *)
(*    reader of the batch to settle.                                       *)
(*  - The calendar is in range mode: a selected range has from <= to.      *)
(***************************************************************************)
EXTENDS Integers, Sequences, FiniteSets, TLC

-----------------------------------------------------------------------------
(* Characters and the String.prototype methods the parsers use.            *)

LF == "\n"
CR == "\r"
TAB == "\t"

Digits == <<"0", "1", "2", "3", "4", "5", "6", "7", "8", "9">>

UpperChars == <<"A", "B", "C", "D", "E", "F", "G", "H", "I", "J", "K", "L", "M",
                "N", "O", "P", "Q", "R", "S", "T", "U", "V", "W", "X", "Y", "Z">>

LowerChars == <<"a", "b", "c", "d", "e", "f", "g", "h", "i", "j", "k", "l", "m",
                "n", "o", "p", "q", "r", "s", "t", "u", "v", "w", "x", "y", "z">>

IsDigit(c) == \E i \in 1..10 : Digits[i] = c

DigitVal(c) == (CHOOSE i \in 1..10 : Digits[i] = c) - 1

\* \s of a regular expression, and the characters trim() strips
IsSpace(c) == c \in {" ", TAB, LF, CR}

Min(a, b) == IF a < b THEN a ELSE b

\* `const x = value; ...`: In(x) with x bound to the value, computed once
Let(value, In(_)) == CHOOSE result \in {In(x) : x \in {value}} : TRUE

\* s.slice(from - 1): the characters of s from position `from` on
Tail2(s, from) == SubSeq(s, from, Len(s))

toLowerChar(c) ==
    IF \E i \in 1..26 : UpperChars[i] = c
    THEN LowerChars[CHOOSE i \in 1..26 : UpperChars[i] = c]
    ELSE c

toLowerCase(s) == [i \in 1..Len(s) |-> toLowerChar(s[i])]

trim(s) ==
    IF \A i \in 1..Len(s) : IsSpace(s[i]) THEN <<>>
    ELSE LET a == CHOOSE i \in 1..Len(s) :
                      ~IsSpace(s[i]) /\ \A j \in 1..(i - 1) : IsSpace(s[j])
             b == CHOOSE i \in 1..Len(s) :
                      ~IsSpace(s[i]) /\ \A j \in (i + 1)..Len(s) : IsSpace(s[j])
         IN  SubSeq(s, a, b)

\* sub occurs in s at position i
OccursAt(s, sub, i) ==
    /\ i >= 1
    /\ i + Len(sub) - 1 <= Len(s)
    /\ \A k \in 1..Len(sub) : s[i + k - 1] = sub[k]

includes(s, sub) == \E i \in 1..(Len(s) + 1) : OccursAt(s, sub, i)

startsWith(s, sub) == OccursAt(s, sub, 1)

\* s.split(c) for a one-character separator c: always at least one part
RECURSIVE split(_, _)
split(s, c) ==
    IF \A i \in 1..Len(s) : s[i] # c THEN <<s>>
    ELSE LET p == CHOOSE i \in 1..Len(s) : s[i] = c /\ \A j \in 1..(i - 1) : s[j] # c
         IN  <<SubSeq(s, 1, p - 1)>> \o split(Tail2(s, p + 1), c)

\* s.split(/\r?\n/)
RECURSIVE splitLines(_)
splitLines(s) ==
    IF \A i \in 1..Len(s) : s[i] # LF THEN <<s>>
    ELSE LET p == CHOOSE i \in 1..Len(s) : s[i] = LF /\ \A j \in 1..(i - 1) : s[j] # LF
             e == IF p > 1 /\ s[p - 1] = CR THEN p - 2 ELSE p - 1
         IN  <<SubSeq(s, 1, e)>> \o splitLines(Tail2(s, p + 1))

\* arr.filter(Boolean) on an array of strings: drops the empty ones
RECURSIVE filterNonEmpty(_)
filterNonEmpty(arr) ==
    IF Len(arr) = 0 THEN <<>>
    ELSE (IF Len(arr[1]) = 0 THEN <<>> ELSE <<arr[1]>>) \o filterNonEmpty(Tail(arr))

\* the number of consecutive digits of s starting at position i
RECURSIVE DigitRun(_, _)
DigitRun(s, i) ==
    IF i >= 1 /\ i <= Len(s) /\ IsDigit(s[i]) THEN 1 + DigitRun(s, i + 1) ELSE 0

\* the number of consecutive non-digits of s starting at position i
RECURSIVE NonDigitRun(_, _)
NonDigitRun(s, i) ==
    IF i >= 1 /\ i <= Len(s) /\ ~IsDigit(s[i]) THEN 1 + NonDigitRun(s, i + 1) ELSE 0

\* the number of consecutive whitespace characters of s starting at position i
RECURSIVE SpaceRun(_, _)
SpaceRun(s, i) ==
    IF i >= 1 /\ i <= Len(s) /\ IsSpace(s[i]) THEN 1 + SpaceRun(s, i + 1) ELSE 0

\* the value of the decimal digits s[i..(i + n - 1)]
RECURSIVE DigitsValue(_, _, _)
DigitsValue(s, i, n) ==
    IF n = 0 THEN 0 ELSE DigitsValue(s, i, n - 1) * 10 + DigitVal(s[i + n - 1])

RECURSIVE Pow10(_)
Pow10(n) == IF n = 0 THEN 1 ELSE 10 * Pow10(n - 1)

-----------------------------------------------------------------------------
(* Numbers.                                                                *)

\* NaN is the one number with denominator 0
NaN == [n |-> 0, d |-> 0]

Abs(x) == IF x < 0 THEN -x ELSE x

RECURSIVE GCD(_, _)
GCD(a, b) == IF b = 0 THEN a ELSE GCD(b, a % b)

\* the rational n / d (d # 0) in lowest terms
Rat(n, d) ==
    LET g == GCD(Abs(n), Abs(d))
        sg == IF d < 0 THEN -1 ELSE 1
    IN  [n |-> sg * (n \div g), d |-> sg * (d \div g)]

Num(i) == [n |-> i, d |-> 1]

Zero == Num(0)

Add(x, y) == Rat(x.n * y.d + y.n * x.d, x.d * y.d)

\* x / y for y # 0
Div(x, y) == Rat(x.n * y.d, x.d * y.n)

Less(x, y) == x.n * y.d < y.n * x.d

\* parseInt(s, 10): leading whitespace, an optional sign, then digits
parseInt(s) ==
    LET a == 1 + SpaceRun(s, 1)
        signed == a <= Len(s) /\ s[a] \in {"+", "-"}
        b == IF signed THEN a + 1 ELSE a
        k == DigitRun(s, b)
        v == DigitsValue(s, b, k)
    IN  IF k = 0 THEN NaN
        ELSE Num(IF signed /\ s[a] = "-" THEN -v ELSE v)

\* parseFloat(s): leading whitespace, an optional sign, digits, an optional
\* fraction (exponents and "Infinity" are not modelled)
parseFloat(s) ==
    LET a == 1 + SpaceRun(s, 1)
        signed == a <= Len(s) /\ s[a] \in {"+", "-"}
        b == IF signed THEN a + 1 ELSE a
        k == DigitRun(s, b)
        dot == b + k <= Len(s) /\ s[b + k] = "."
        f == IF dot THEN DigitRun(s, b + k + 1) ELSE 0
        v == DigitsValue(s, b, k) * Pow10(f)
               + (IF f > 0 THEN DigitsValue(s, b + k + 1, f) ELSE 0)
    IN  IF k = 0 /\ f = 0 THEN NaN
        ELSE Rat(IF signed /\ s[a] = "-" THEN -v ELSE v, Pow10(f))

\* x || 0 for a number x: NaN and 0 are falsy
OrZero(x) == IF x = NaN THEN Zero ELSE x

\* s.replace(c, r): the first occurrence of the character c
replaceFirst(s, c, r) ==
    IF \A i \in 1..Len(s) : s[i] # c THEN s
    ELSE LET p == CHOOSE i \in 1..Len(s) : s[i] = c /\ \A j \in 1..(i - 1) : s[j] # c
         IN  SubSeq(s, 1, p - 1) \o <<r>> \o Tail2(s, p + 1)

\* s.replace(/c/g, ''): every occurrence of the character c
RECURSIVE removeAll(_, _)
removeAll(s, c) ==
    IF Len(s) = 0 THEN <<>>
    ELSE (IF s[1] = c THEN <<>> ELSE <<s[1]>>) \o removeAll(Tail(s), c)

-----------------------------------------------------------------------------
(* Name normalizer.                                                        *)

\* the length of the match of /^\d+-\d+\s+/ in s, 0 when there is none
prefixMatchLen(s) ==
    LET k1 == DigitRun(s, 1)
        k2 == DigitRun(s, k1 + 2)
        w == SpaceRun(s, k1 + 2 + k2)
    IN  IF k1 >= 1 /\ k1 + 1 <= Len(s) /\ s[k1 + 1] = "-" /\ k2 >= 1 /\ w >= 1
        THEN k1 + 1 + k2 + w
        ELSE 0

\* /\s*\([^)]+\)$/ matches s from position i to the end of s
suffixMatchesAt(s, i) ==
    /\ Len(s) >= 1
    /\ s[Len(s)] = ")"
    /\ \E p \in i..(Len(s) - 2) :
          /\ \A t \in i..(p - 1) : IsSpace(s[t])
          /\ s[p] = "("
          /\ \A t \in (p + 1)..(Len(s) - 1) : s[t] # ")"

\* s.replace(/\s*\([^)]+\)$/, ''): the leftmost match is removed
removeSuffix(s) ==
    IF \E i \in 1..Len(s) : suffixMatchesAt(s, i)
    THEN LET i == CHOOSE i \in 1..Len(s) :
                      suffixMatchesAt(s, i) /\ \A j \in 1..(i - 1) : ~suffixMatchesAt(s, j)
         IN  SubSeq(s, 1, i - 1)
    ELSE s

cleanSalespersonName(name) ==
    IF Len(name) = 0 THEN <<>>
    ELSE trim(removeSuffix(Tail2(name, prefixMatchLen(name) + 1)))

-----------------------------------------------------------------------------
(* Dates and the date-range extractor.                                     *)

HoursPerDay == 24

\* the year of `new Date()`, the reference date of every parse
CurrentYear == 2025

Null == [null |-> TRUE]

\* tryParseDate's null
NoDate == -1

IsLeap(y) == (y % 4 = 0 /\ y % 100 # 0) \/ y % 400 = 0

DaysInMonth(y, m) ==
    IF m = 2 THEN (IF IsLeap(y) THEN 29 ELSE 28)
    ELSE IF m \in {4, 6, 9, 11} THEN 30 ELSE 31

RECURSIVE DaysBeforeMonth(_, _)
DaysBeforeMonth(y, m) ==
    IF m = 1 THEN 0 ELSE DaysBeforeMonth(y, m - 1) + DaysInMonth(y, m - 1)

LeapsThrough(y) == (y \div 4) - (y \div 100) + (y \div 400)

\* the Date at 00:00 of the calendar day y-m-d (y >= 1970)
DateOf(y, m, d) ==
    (365 * (y - 1970) + LeapsThrough(y - 1) - LeapsThrough(1969)
       + DaysBeforeMonth(y, m) + (d - 1)) * HoursPerDay

startOfDay(date) == (date \div HoursPerDay) * HoursPerDay

endOfDay(date) == (date \div HoursPerDay) * HoursPerDay + (HoursPerDay - 1)

\* isWithinInterval(date, interval), for a well-formed interval
isWithinInterval(date, interval) == interval.start <= date /\ date <= interval.end

\* the length of the match of a numeric date-fns token at position i of s,
\* 0 when there is none
tokenMatchLen(tok, s, i) ==
    LET k == DigitRun(s, i)
        c1 == s[i]
        c2 == s[i + 1]
    IN  IF k = 0 THEN 0
        ELSE IF tok \in {"dd", "MM", "yy"} THEN Min(k, 2)
        ELSE IF tok = "yyyy" THEN Min(k, 4)
        ELSE IF tok = "d"        \* /^(3[0-1]|[0-2]?\d)/
             THEN IF k >= 2 /\ c1 = "3" /\ c2 \in {"0", "1"} THEN 2
                  ELSE IF k >= 2 /\ c1 \in {"0", "1", "2"} THEN 2 ELSE 1
        ELSE IF tok = "M"        \* /^(1[0-2]|0?\d)/
             THEN IF k >= 2 /\ c1 = "1" /\ c2 \in {"0", "1", "2"} THEN 2
                  ELSE IF k >= 2 /\ c1 = "0" THEN 2 ELSE 1
        ELSE 0

\* normalizeTwoDigitYear of date-fns, for a reference year after 50
normalizeTwoDigitYear(twoDigitYear) ==
    LET rangeEnd == CurrentYear + 50
        rangeEndCentury == (rangeEnd \div 100) * 100
        isPreviousCentury == twoDigitYear >= rangeEnd % 100
    IN  twoDigitYear + rangeEndCentury - (IF isPreviousCentury THEN 100 ELSE 0)

\* date-fns parse(s, fmt, new Date()) for a format <<t1, sep, t2, sep, t3>>
\* of numeric tokens: the Date, or Null for an Invalid Date
parseDate(s, fmt) ==
    Let(tokenMatchLen(fmt[1], s, 1), LAMBDA l1 :
    LET p2 == 1 + l1 + 1
    IN
    Let(IF l1 > 0 THEN tokenMatchLen(fmt[3], s, p2) ELSE 0, LAMBDA l2 :
    LET p3 == p2 + l2 + 1
    IN
    Let(IF l2 > 0 THEN tokenMatchLen(fmt[5], s, p3) ELSE 0, LAMBDA l3 :
    LET shape == /\ l1 > 0 /\ l2 > 0 /\ l3 > 0
                 /\ s[p2 - 1] = fmt[2] /\ s[p3 - 1] = fmt[4]
                 /\ p3 + l3 - 1 = Len(s)
        val(k) == IF k = 1 THEN DigitsValue(s, 1, l1)
                  ELSE IF k = 3 THEN DigitsValue(s, p2, l2)
                  ELSE DigitsValue(s, p3, l3)
        field(names) == val(CHOOSE k \in {1, 3, 5} : fmt[k] \in names)
        rawYear == field({"yyyy", "yy"})
        year == IF \E k \in {1, 3, 5} : fmt[k] = "yy"
                THEN normalizeTwoDigitYear(rawYear) ELSE rawYear
        month == field({"MM", "M"})
        day == field({"dd", "d"})
    IN  IF ~shape THEN Null
        ELSE IF year < 1 \/ month < 1 \/ month > 12 THEN Null
        ELSE IF day < 1 \/ day > DaysInMonth(year, month) THEN Null
        ELSE [year |-> year, month |-> month, day |-> day])))

DateFormats ==
    << <<"dd", "/", "MM", "/", "yyyy">>, <<"yyyy", "/", "MM", "/", "dd">>,
       <<"dd", "-", "MM", "-", "yyyy">>, <<"yyyy", "-", "MM", "-", "dd">>,
       <<"d", "/", "M", "/", "yy">>, <<"d", "/", "M", "/", "yyyy">> >>

\* the first format whose parse is a valid date of a year after 1970
RECURSIVE tryFormats(_, _)
tryFormats(s, k) ==
    IF k > Len(DateFormats) THEN NoDate
    ELSE Let(parseDate(s, DateFormats[k]), LAMBDA date :
             IF date # Null /\ date.year > 1970
             THEN DateOf(date.year, date.month, date.day)
             ELSE tryFormats(s, k + 1))

tryParseDate(dateString) == Let(trim(dateString), LAMBDA s : tryFormats(s, 1))

IsDateSep(c) == c \in {"/", "-"}

\* the length of the match of \d{1,4}[\/\-]\d{1,2}[\/\-]\d{1,4} at position i
\* of s, 0 when there is none; with `whole` the last group must be followed
\* by a non-digit (as it is before [^0-9]+)
dateTokenLen(s, i, whole) ==
    LET k1 == DigitRun(s, i)
        p2 == i + k1 + 1
        k2 == DigitRun(s, p2)
        p3 == p2 + k2 + 1
        k3 == DigitRun(s, p3)
    IN  IF /\ k1 >= 1 /\ k1 <= 4
           /\ p2 - 1 <= Len(s) /\ IsDateSep(s[p2 - 1])
           /\ k2 >= 1 /\ k2 <= 2
           /\ p3 - 1 <= Len(s) /\ IsDateSep(s[p3 - 1])
           /\ k3 >= 1 /\ (whole => k3 <= 4)
        THEN k1 + 1 + k2 + 1 + Min(k3, 4)
        ELSE 0

\* rangeRegex matches s from position i; the two captured tokens
rangeMatchAt(s, i) ==
    Let(dateTokenLen(s, i, TRUE), LAMBDA l1 :
    Let(NonDigitRun(s, i + l1), LAMBDA f :
    Let(dateTokenLen(s, i + l1 + f, FALSE), LAMBDA l2 :
    LET j == i + l1 + f
    IN  IF l1 > 0 /\ f >= 1 /\ l2 > 0
        THEN [first |-> SubSeq(s, i, i + l1 - 1), second |-> SubSeq(s, j, j + l2 - 1)]
        ELSE Null)))

\* the leftmost match of rangeRegex in s at position i or later, or Null
RECURSIVE rangeMatchFrom(_, _)
rangeMatchFrom(s, i) ==
    IF i > Len(s) THEN Null
    ELSE Let(rangeMatchAt(s, i), LAMBDA match :
             IF match # Null THEN match ELSE rangeMatchFrom(s, i + 1))

\* rangeStr.match(rangeRegex): the leftmost match, or Null
rangeMatch(s) == rangeMatchFrom(s, 1)

\* the fallback of parseDateRangeFromString: the two parts around one `-`
splitDateRange(rangeStr) ==
    Let(split(rangeStr, "-"), LAMBDA parts :
    Let(IF Len(parts) = 2 THEN tryParseDate(trim(parts[1])) ELSE NoDate, LAMBDA startDate :
    Let(IF Len(parts) = 2 THEN tryParseDate(trim(parts[2])) ELSE NoDate, LAMBDA endDate :
        IF startDate # NoDate /\ endDate # NoDate
        THEN [start |-> startOfDay(startDate), end |-> endOfDay(endDate)]
        ELSE Null)))

\* parseDateRangeFromString taking the two dates in the order of the text
parseDateRangeFromStringInTextOrder(rangeStr) ==
    Let(rangeMatch(rangeStr), LAMBDA match :
    Let(IF match = Null THEN NoDate ELSE tryParseDate(match.first), LAMBDA startDate :
    Let(IF match = Null THEN NoDate ELSE tryParseDate(match.second), LAMBDA endDate :
        IF startDate # NoDate /\ endDate # NoDate
        THEN [start |-> startOfDay(startDate), end |-> endOfDay(endDate)]
        ELSE splitDateRange(rangeStr))))

parseDateRangeFromString(rangeStr) ==
    Let(rangeMatch(rangeStr), LAMBDA match :
    Let(IF match = Null THEN NoDate ELSE tryParseDate(match.first), LAMBDA startDate :
    Let(IF match = Null THEN NoDate ELSE tryParseDate(match.second), LAMBDA endDate :
        IF startDate # NoDate /\ endDate # NoDate
        THEN [start |-> startOfDay(IF startDate < endDate THEN startDate ELSE endDate),
              end |-> endOfDay(IF startDate < endDate THEN endDate ELSE startDate)]
        ELSE splitDateRange(rangeStr))))

-----------------------------------------------------------------------------
(* Attendance parser.                                                      *)

\* the literals the parsers look for
STotal == <<"t", "o", "t", "a", "l">>
SVendedor == <<"v", "e", "n", "d", "e", "d", "o", "r">>
SVendas == <<"v", "e", "n", "d", "a", "s">>
STotalVendas == STotal \o <<" ">> \o SVendas
SNara == <<"n", "a", "r", "a">>
SData == <<"d", "a", "t", "a">>
SAt == <<"a", "t", ".">>
SPot == <<"p", "o", "t", ".">>
SAtPot == <<"A", "t", ".", ";", "P", "o", "t", ".">>

Throw(msg) == [ok |-> FALSE, error |-> msg]

\* arr.map(f) for the string-to-string functions the parsers map
RECURSIVE mapTrim(_)
mapTrim(arr) == IF Len(arr) = 0 THEN <<>> ELSE <<trim(arr[1])>> \o mapTrim(Tail(arr))

\* csvText.split(/\r?\n/).map(l => l.trim()).filter(Boolean)
nonBlankLines(csvText) == filterNonEmpty(mapTrim(splitLines(csvText)))

\* hourHeadersFrom leaving a blank cell blank
RECURSIVE hourHeadersFromNoCarry(_, _)
hourHeadersFromNoCarry(rawHourHeaders, lastHourHeader) ==
    IF Len(rawHourHeaders) = 0 THEN <<>>
    ELSE <<trim(rawHourHeaders[1])>>
           \o hourHeadersFromNoCarry(Tail(rawHourHeaders), lastHourHeader)

\* rawHourHeaders.map(...): a blank cell repeats the last non-blank label
RECURSIVE hourHeadersFrom(_, _)
hourHeadersFrom(rawHourHeaders, lastHourHeader) ==
    IF Len(rawHourHeaders) = 0 THEN <<>>
    ELSE LET trimmed == trim(rawHourHeaders[1])
             cur == IF Len(trimmed) > 0 THEN trimmed ELSE lastHourHeader
         IN  <<cur>> \o hourHeadersFrom(Tail(rawHourHeaders), cur)

\* the number of digits /(\d{1,2})h/ captures when it matches s at position i,
\* 0 when it does not
hourMatchAt(s, i) ==
    IF DigitRun(s, i) >= 2 /\ i + 2 <= Len(s) /\ s[i + 2] = "h" THEN 2
    ELSE IF DigitRun(s, i) >= 1 /\ i + 1 <= Len(s) /\ s[i + 1] = "h" THEN 1
    ELSE 0

\* hourHeader.match(/(\d{1,2})h/) followed by parseInt(hourMatch[1], 10):
\* the hour of the leftmost match, or -1 when there is no match
hourOf(hourHeader) ==
    IF \E i \in 1..Len(hourHeader) : hourMatchAt(hourHeader, i) > 0
    THEN LET i == CHOOSE i \in 1..Len(hourHeader) :
                      /\ hourMatchAt(hourHeader, i) > 0
                      /\ \A j \in 1..(i - 1) : hourMatchAt(hourHeader, j) = 0
         IN  DigitsValue(hourHeader, i, hourMatchAt(hourHeader, i))
    ELSE -1

\* one entry of `columns`: Null, or the hour and the metric of the column
columnOf(hourHeader, metricHeader) ==
    IF includes(toLowerCase(hourHeader), STotal) THEN Null
    ELSE IF hourOf(hourHeader) = -1 THEN Null
    ELSE IF metricHeader = SAt THEN [hour |-> hourOf(hourHeader), type |-> "attendances"]
    ELSE IF metricHeader = SPot THEN [hour |-> hourOf(hourHeader), type |-> "potentials"]
    ELSE Null

\* the array `columns`: entry i describes cell i + 1 of a data row
columnsOf(hourHeaders, metricHeaders) ==
    [i \in 1..(Len(hourHeaders) - 1) |->
        columnOf(hourHeaders[i + 1],
                 IF i + 1 <= Len(metricHeaders) THEN metricHeaders[i + 1] ELSE <<>>)]

\* hourlyMap after the cells values[2..k] of a row (values[1] is the label);
\* a Map from hour to [attendances, potentials] is a function
RECURSIVE hourlyMapOf(_, _, _)
hourlyMapOf(values, columns, k) ==
    IF k <= 1 THEN <<>>
    ELSE LET prev == hourlyMapOf(values, columns, k - 1)
             i == k - 1
             columnInfo == columns[i]
             value == parseInt(values[k])
         IN  IF i > Len(columns) THEN prev
             ELSE IF columnInfo = Null \/ Len(values[k]) = 0 THEN prev
             ELSE IF value = NaN THEN prev
             ELSE LET hour == columnInfo.hour
                      current == IF hour \in DOMAIN prev THEN prev[hour]
                                 ELSE [attendances |-> 0, potentials |-> 0]
                      updated == IF columnInfo.type = "attendances"
                                 THEN [current EXCEPT !.attendances = @ + value.n]
                                 ELSE [current EXCEPT !.potentials = @ + value.n]
                  IN  [h \in (DOMAIN prev) \cup {hour} |->
                          IF h = hour THEN updated ELSE prev[h]]

\* Array.from(map.entries()).map(([hour, data]) => ({hour, ...data}))
\*   .sort((a, b) => a.hour - b.hour)
RECURSIVE sortedHourly(_)
sortedHourly(map) ==
    IF DOMAIN map = {} THEN <<>>
    ELSE LET h == CHOOSE h \in DOMAIN map : \A g \in DOMAIN map : h <= g
             rest == [g \in (DOMAIN map) \ {h} |-> map[g]]
         IN  <<[hour |-> h, attendances |-> map[h].attendances,
                potentials |-> map[h].potentials]>> \o sortedHourly(rest)

\* hourly.reduce((sum, h) => sum + h.attendances, 0)
RECURSIVE sumAttendances(_)
sumAttendances(hourly) ==
    IF Len(hourly) = 0 THEN 0 ELSE hourly[1].attendances + sumAttendances(Tail(hourly))

\* hourly.reduce((sum, h) => sum + h.potentials, 0)
RECURSIVE sumPotentials(_)
sumPotentials(hourly) ==
    IF Len(hourly) = 0 THEN 0 ELSE hourly[1].potentials + sumPotentials(Tail(hourly))

\* attendanceRecord with totalPotentials reduced over the attendances
attendanceRecordWrongTotal(salesperson, values, columns) ==
    LET hourly == sortedHourly(hourlyMapOf(values, columns, Len(values)))
    IN  [salesperson |-> salesperson, hourly |-> hourly,
         totalAttendances |-> sumAttendances(hourly),
         totalPotentials |-> sumAttendances(hourly)]

\* the record pushed for one data row
attendanceRecord(salesperson, values, columns) ==
    LET hourly == sortedHourly(hourlyMapOf(values, columns, Len(values)))
    IN  [salesperson |-> salesperson, hourly |-> hourly,
         totalAttendances |-> sumAttendances(hourly),
         totalPotentials |-> sumPotentials(hourly)]

\* rowSkipped letting the Total row through
rowSkippedBlankOnly(rawSalesperson) ==
    Len(rawSalesperson) = 0

\* the row filter of sales-analyzer.tsx
rowSkipped(rawSalesperson) ==
    toLowerCase(rawSalesperson) = STotal \/ Len(rawSalesperson) = 0

\* the row filter of part_002 (both of its parsers)
rowSkipped2(rawSalesperson) ==
    LET lowerRawSalesperson == toLowerCase(rawSalesperson)
    IN  \/ Len(rawSalesperson) = 0
        \/ includes(lowerRawSalesperson, STotal)
        \/ includes(lowerRawSalesperson, SNara)
        \/ includes(lowerRawSalesperson, SVendedor)
        \/ startsWith(lowerRawSalesperson, SData)
        \/ Len(cleanSalespersonName(rawSalesperson)) = 0

\* attendanceRows leaving the loop at the first row it skips
RECURSIVE attendanceRowsUntilSkip(_, _, _)
attendanceRowsUntilSkip(dataRows, columns, rev2) ==
    IF Len(dataRows) = 0 THEN <<>>
    ELSE LET values == mapTrim(split(dataRows[1], ";"))
             rawSalesperson == values[1]
             skip == IF rev2 THEN rowSkipped2(rawSalesperson) ELSE rowSkipped(rawSalesperson)
         IN  IF skip THEN <<>>
             ELSE <<attendanceRecord(cleanSalespersonName(rawSalesperson), values, columns)>>
                    \o attendanceRowsUntilSkip(Tail(dataRows), columns, rev2)

\* the loop over dataRows; rev2 selects the row filter of part_002
RECURSIVE attendanceRows(_, _, _)
attendanceRows(dataRows, columns, rev2) ==
    IF Len(dataRows) = 0 THEN <<>>
    ELSE LET values == mapTrim(split(dataRows[1], ";"))
             rawSalesperson == values[1]
             skip == IF rev2 THEN rowSkipped2(rawSalesperson) ELSE rowSkipped(rawSalesperson)
         IN  (IF skip THEN <<>>
              ELSE <<attendanceRecord(cleanSalespersonName(rawSalesperson), values, columns)>>)
             \o attendanceRows(Tail(dataRows), columns, rev2)

parseAttendance(csvText, rev2) ==
    LET lines == nonBlankLines(csvText)
        dateRange == parseDateRangeFromString(lines[1])
        header == toLowerCase(lines[1])
        hourHeaders == hourHeadersFrom(split(lines[2], ";"), <<>>)
        metricHeaders == LET cells == mapTrim(split(lines[3], ";"))
                         IN  [i \in 1..Len(cells) |-> toLowerCase(cells[i])]
        columns == columnsOf(hourHeaders, metricHeaders)
        parsedData == attendanceRows(Tail2(lines, 4), columns, rev2)
    IN  IF Len(lines) < 4 THEN Throw("incomplete")
        ELSE IF dateRange = Null
        THEN IF includes(header, SVendedor)
                  /\ (includes(header, STotalVendas) \/ includes(header, SVendas))
             THEN Throw("wrongSlot")
             ELSE Throw("noDateRange")
        ELSE IF ~startsWith(metricHeaders[1], SVendedor) THEN Throw("noVendedorHeader")
        ELSE IF Len(parsedData) = 0 THEN Throw("noValidRows")
        ELSE [ok |-> TRUE, data |-> parsedData, dateRange |-> dateRange]

\* src/src/components/sales-analyzer.tsx
parseAttendanceCsv(csvText) == parseAttendance(csvText, FALSE)

\* src/unnamed/part_002
parseAttendanceCsv2(csvText) == parseAttendance(csvText, TRUE)

-----------------------------------------------------------------------------
(* Sales parser.                                                           *)

\* /\d{1,2}[\/\-]\d{1,2}[\/\-]\d{2,4}/ matches s at position i
hasDateAt(s, i) ==
    \E k1 \in {1, 2}, k2 \in {1, 2} :
        /\ i + k1 + k2 + 3 <= Len(s)
        /\ \A t \in i..(i + k1 - 1) : IsDigit(s[t])
        /\ IsDateSep(s[i + k1])
        /\ \A t \in (i + k1 + 1)..(i + k1 + k2) : IsDigit(s[t])
        /\ IsDateSep(s[i + k1 + k2 + 1])
        /\ IsDigit(s[i + k1 + k2 + 2])
        /\ IsDigit(s[i + k1 + k2 + 3])

hasDate(firstLine) == \E i \in 1..Len(firstLine) : hasDateAt(firstLine, i)

parseCurrency(str) == OrZero(parseFloat(replaceFirst(removeAll(str, "."), ",", ".")))

parseIntSimple(str) == OrZero(parseInt(str))

parseFloatSimple(str) == OrZero(parseFloat(replaceFirst(str, ",", ".")))

\* the record pushed for one data row
salesRecord(values) ==
    [salesperson |-> cleanSalespersonName(values[1]),
     salesCount |-> parseIntSimple(values[3]).n,
     itemsPerSale |-> parseFloatSimple(values[7]),
     totalRevenue |-> parseCurrency(values[9]),
     averageTicket |-> parseCurrency(values[11])]

\* the loop over dataRows; rev2 selects the row filter of part_002
RECURSIVE salesRows(_, _)
salesRows(dataRows, rev2) ==
    IF Len(dataRows) = 0 THEN <<>>
    ELSE LET values == mapTrim(split(dataRows[1], ";"))
             skip == \/ Len(values) < 11
                     \/ IF rev2 THEN rowSkipped2(values[1]) ELSE rowSkipped(values[1])
         IN  (IF skip THEN <<>> ELSE <<salesRecord(values)>>)
             \o salesRows(Tail(dataRows), rev2)

parseSales(csvText, rev2) ==
    LET lines == nonBlankLines(csvText)
        firstLine == toLowerCase(lines[1])
        parsedData == salesRows(Tail(lines), rev2)
    IN  IF Len(lines) < 2 THEN Throw("incomplete")
        ELSE IF hasDate(firstLine) /\ ~includes(firstLine, SVendedor) THEN Throw("wrongSlot")
        ELSE IF Len(parsedData) = 0 THEN Throw("noValidRows")
        ELSE [ok |-> TRUE, data |-> parsedData]

\* src/src/components/sales-analyzer.tsx
parseSalesCsv(csvText) == parseSales(csvText, FALSE)

\* src/unnamed/part_002
parseSalesCsv2(csvText) == parseSales(csvText, TRUE)

-----------------------------------------------------------------------------
(* Dataset mergers.                                                        *)

\* the position of the record of `name` in a list of records, 0 when absent
\* (mergedMap.get(name), list.find(r => r.salesperson === name))
indexOfName(records, name) ==
    IF \E i \in 1..Len(records) : records[i].salesperson = name
    THEN CHOOSE i \in 1..Len(records) :
             /\ records[i].salesperson = name
             /\ \A j \in 1..(i - 1) : records[j].salesperson # name
    ELSE 0

\* addHours with `=` for `+=`: the new bucket replaces the existing one
RECURSIVE addHoursOverwrite(_, _)
addHoursOverwrite(map, newHours) ==
    IF Len(newHours) = 0 THEN map
    ELSE LET newHour == newHours[1]
         IN  addHoursOverwrite(
                 [h \in (DOMAIN map) \cup {newHour.hour} |->
                     IF h = newHour.hour
                     THEN [attendances |-> newHour.attendances,
                           potentials |-> newHour.potentials]
                     ELSE map[h]],
                 Tail(newHours))

\* hourlyMap after `for (const newHour of newHours)`, starting from `map`
RECURSIVE addHours(_, _)
addHours(map, newHours) ==
    IF Len(newHours) = 0 THEN map
    ELSE LET newHour == newHours[1]
             existingHour == IF newHour.hour \in DOMAIN map THEN map[newHour.hour]
                             ELSE [attendances |-> 0, potentials |-> 0]
             summed == [attendances |-> existingHour.attendances + newHour.attendances,
                        potentials |-> existingHour.potentials + newHour.potentials]
         IN  addHours([h \in (DOMAIN map) \cup {newHour.hour} |->
                          IF h = newHour.hour THEN summed ELSE map[h]],
                      Tail(newHours))

\* new Map(hourly.map(h => [h.hour, {...h}])): a later entry of an hour
\* replaces an earlier one
RECURSIVE mapOfHourly(_)
mapOfHourly(hourly) ==
    IF Len(hourly) = 0 THEN <<>>
    ELSE LET n == Len(hourly)
             prev == mapOfHourly(SubSeq(hourly, 1, n - 1))
             last == hourly[n]
         IN  [h \in (DOMAIN prev) \cup {last.hour} |->
                 IF h = last.hour
                 THEN [attendances |-> last.attendances, potentials |-> last.potentials]
                 ELSE prev[h]]

\* mergePerson that keeps the existing bucket of an hour both sides have
mergePersonFirstWins(mergedMap, newPerson) ==
    LET i == indexOfName(mergedMap, newPerson.salesperson)
        existingPerson == IF i = 0
                          THEN [salesperson |-> newPerson.salesperson, hourly |-> <<>>,
                                totalAttendances |-> 0, totalPotentials |-> 0]
                          ELSE mergedMap[i]
        existingMap == mapOfHourly(existingPerson.hourly)
        IsNew(newHour) == newHour.hour \notin DOMAIN existingMap
        hourly == sortedHourly(addHours(existingMap, SelectSeq(newPerson.hourly, IsNew)))
        updated == [salesperson |-> existingPerson.salesperson,
                    hourly |-> hourly,
                    totalAttendances |-> sumAttendances(hourly),
                    totalPotentials |-> sumPotentials(hourly)]
    IN  IF i = 0 THEN Append(mergedMap, updated) ELSE [mergedMap EXCEPT ![i] = updated]

\* the body of the inner loop of mergeAttendanceData; mergedMap is the list
\* of its values in insertion order
mergePerson(mergedMap, newPerson) ==
    LET i == indexOfName(mergedMap, newPerson.salesperson)
        existingPerson == IF i = 0
                          THEN [salesperson |-> newPerson.salesperson, hourly |-> <<>>,
                                totalAttendances |-> 0, totalPotentials |-> 0]
                          ELSE mergedMap[i]
        hourly == sortedHourly(addHours(mapOfHourly(existingPerson.hourly), newPerson.hourly))
        updated == [salesperson |-> existingPerson.salesperson,
                    hourly |-> hourly,
                    totalAttendances |-> sumAttendances(hourly),
                    totalPotentials |-> sumPotentials(hourly)]
    IN  IF i = 0 THEN Append(mergedMap, updated) ELSE [mergedMap EXCEPT ![i] = updated]

\* the records of all datasets in loop order
RECURSIVE flatten(_)
flatten(datasets) ==
    IF Len(datasets) = 0 THEN <<>> ELSE datasets[1] \o flatten(Tail(datasets))

RECURSIVE mergeAttendanceFold(_, _)
mergeAttendanceFold(mergedMap, persons) ==
    IF Len(persons) = 0 THEN mergedMap
    ELSE mergeAttendanceFold(mergePerson(mergedMap, persons[1]), Tail(persons))

mergeAttendanceData(datasets) == mergeAttendanceFold(<<>>, flatten(datasets))

\* the body of the inner loop of mergeSalesData
mergeSale(mergedMap, newSale) ==
    LET i == indexOfName(mergedMap, newSale.salesperson)
        existingSale == IF i = 0
                        THEN [salesperson |-> newSale.salesperson, salesCount |-> 0,
                              totalRevenue |-> Zero, averageTicket |-> Zero,
                              itemsPerSale |-> Zero]
                        ELSE mergedMap[i]
        totalSales == existingSale.salesCount + newSale.salesCount
        totalRevenue == Add(existingSale.totalRevenue, newSale.totalRevenue)
        updated == [existingSale EXCEPT
                       !.salesCount = totalSales,
                       !.totalRevenue = totalRevenue,
                       !.averageTicket = IF totalSales > 0
                                         THEN Div(totalRevenue, Num(totalSales))
                                         ELSE @]
    IN  IF i = 0 THEN Append(mergedMap, updated) ELSE [mergedMap EXCEPT ![i] = updated]

RECURSIVE mergeSalesFold(_, _)
mergeSalesFold(mergedMap, sales) ==
    IF Len(sales) = 0 THEN mergedMap
    ELSE mergeSalesFold(mergeSale(mergedMap, sales[1]), Tail(sales))

mergeSalesData(datasets) == mergeSalesFold(<<>>, flatten(datasets))

-----------------------------------------------------------------------------
(* Date filter and consolidation (the useMemo `activeData`).               *)

\* filterDateRange undefined, or with no `from`
NoFilter == [from |-> NoDate, to |-> NoDate]

\* files.map(f => f.parsedData)
RECURSIVE parsedDataOf(_)
parsedDataOf(files) ==
    IF Len(files) = 0 THEN <<>> ELSE <<files[1].parsedData>> \o parsedDataOf(Tail(files))

\* fileInFilter without its third test: a file is kept only when one of its
\* ends is inside the filter
fileInFilterEndpoints(file, filter) ==
    LET fileInterval == [start |-> file.dateRange.start, end |-> file.dateRange.end]
        filterInterval == [start |-> startOfDay(filter.from),
                           end |-> endOfDay(IF filter.to # NoDate THEN filter.to
                                            ELSE filter.from)]
    IN  \/ isWithinInterval(fileInterval.start, filterInterval)
        \/ isWithinInterval(fileInterval.end, filterInterval)

\* the predicate of loadedAttendanceFiles.filter(...)
fileInFilter(file, filter) ==
    LET fileInterval == [start |-> file.dateRange.start, end |-> file.dateRange.end]
        filterInterval == [start |-> startOfDay(filter.from),
                           end |-> endOfDay(IF filter.to # NoDate THEN filter.to
                                            ELSE filter.from)]
    IN  \/ isWithinInterval(fileInterval.start, filterInterval)
        \/ isWithinInterval(fileInterval.end, filterInterval)
        \/ (fileInterval.start <= filterInterval.start
              /\ fileInterval.end >= filterInterval.end)

attendanceFilesToProcess(attendanceFiles, filter) ==
    IF filter.from # NoDate
    THEN LET Test(file) == fileInFilter(file, filter)
         IN  SelectSeq(attendanceFiles, Test)
    ELSE attendanceFiles

\* list.map(r => r.salesperson)
namesOf(records) == [i \in 1..Len(records) |-> records[i].salesperson]

\* Array.from(new Set(names)): first occurrences, in order
RECURSIVE distinctNames(_)
distinctNames(names) ==
    IF Len(names) = 0 THEN <<>>
    ELSE LET n == Len(names)
             prev == distinctNames(SubSeq(names, 1, n - 1))
         IN  IF \E i \in 1..(n - 1) : names[i] = names[n] THEN prev
             ELSE Append(prev, names[n])

\* consolidate taking the sales record at the position of the attendance
\* record instead of the sales record of the name
consolidateByPosition(name, mergedPerformances, mergedSales) ==
    LET p == indexOfName(mergedPerformances, name)
        q == IF p # 0 /\ p <= Len(mergedSales) THEN p ELSE indexOfName(mergedSales, name)
        totalAttendances == IF p # 0 THEN mergedPerformances[p].totalAttendances ELSE 0
        salesCount == IF q # 0 THEN mergedSales[q].salesCount ELSE 0
    IN  [salesperson |-> name,
         hourly |-> IF p # 0 THEN mergedPerformances[p].hourly ELSE <<>>,
         totalAttendances |-> totalAttendances,
         totalPotentials |-> IF p # 0 THEN mergedPerformances[p].totalPotentials ELSE 0,
         salesCount |-> salesCount,
         totalRevenue |-> IF q # 0 THEN mergedSales[q].totalRevenue ELSE Zero,
         averageTicket |-> IF q # 0 THEN mergedSales[q].averageTicket ELSE Zero,
         itemsPerSale |-> IF q # 0 THEN mergedSales[q].itemsPerSale ELSE Zero,
         conversionRate |-> IF totalAttendances > 0
                            THEN Rat(salesCount, totalAttendances) ELSE Zero]

\* one element of consolidatedData
consolidate(name, mergedPerformances, mergedSales) ==
    LET p == indexOfName(mergedPerformances, name)
        q == indexOfName(mergedSales, name)
        totalAttendances == IF p # 0 THEN mergedPerformances[p].totalAttendances ELSE 0
        salesCount == IF q # 0 THEN mergedSales[q].salesCount ELSE 0
    IN  [salesperson |-> name,
         hourly |-> IF p # 0 THEN mergedPerformances[p].hourly ELSE <<>>,
         totalAttendances |-> totalAttendances,
         totalPotentials |-> IF p # 0 THEN mergedPerformances[p].totalPotentials ELSE 0,
         salesCount |-> salesCount,
         totalRevenue |-> IF q # 0 THEN mergedSales[q].totalRevenue ELSE Zero,
         averageTicket |-> IF q # 0 THEN mergedSales[q].averageTicket ELSE Zero,
         itemsPerSale |-> IF q # 0 THEN mergedSales[q].itemsPerSale ELSE Zero,
         conversionRate |-> IF totalAttendances > 0
                            THEN Rat(salesCount, totalAttendances) ELSE Zero]

\* step 3 of activeData
mergedPerformancesOf(attendanceFiles, filter) ==
    mergeAttendanceData(parsedDataOf(attendanceFilesToProcess(attendanceFiles, filter)))

\* mergedSalesOf keeping every merged sales record under a date filter
mergedSalesOfUnfiltered(attendanceFiles, salesFiles, filter) ==
    mergeSalesData(parsedDataOf(salesFiles))

\* steps 2 and 4 of activeData
mergedSalesOf(attendanceFiles, salesFiles, filter) ==
    LET allMergedSales == mergeSalesData(parsedDataOf(salesFiles))
        active == namesOf(mergedPerformancesOf(attendanceFiles, filter))
        Test(sale) == \E i \in 1..Len(active) : active[i] = sale.salesperson
    IN  IF filter.from # NoDate THEN SelectSeq(allMergedSales, Test) ELSE allMergedSales

\* consolidatedDataOf over the names of the attendance only
consolidatedDataLeftJoin(attendanceFiles, salesFiles, filter) ==
    LET mergedPerformances == mergedPerformancesOf(attendanceFiles, filter)
        mergedSales == mergedSalesOf(attendanceFiles, salesFiles, filter)
        salespeopleToShow == distinctNames(namesOf(mergedPerformances))
    IN  IF Len(attendanceFiles) = 0 /\ Len(salesFiles) = 0 THEN <<>>
        ELSE [i \in 1..Len(salespeopleToShow) |->
                 consolidate(salespeopleToShow[i], mergedPerformances, mergedSales)]

\* activeData.consolidatedData of sales-analyzer.tsx
consolidatedDataOf(attendanceFiles, salesFiles, filter) ==
    LET mergedPerformances == mergedPerformancesOf(attendanceFiles, filter)
        mergedSales == mergedSalesOf(attendanceFiles, salesFiles, filter)
        salespeopleToShow ==
            distinctNames(namesOf(mergedPerformances) \o namesOf(mergedSales))
    IN  IF Len(attendanceFiles) = 0 /\ Len(salesFiles) = 0 THEN <<>>
        ELSE [i \in 1..Len(salespeopleToShow) |->
                 consolidate(salespeopleToShow[i], mergedPerformances, mergedSales)]

\* activeData.consolidatedData of part_002: no filter, no early exit
consolidatedDataOf2(attendanceFiles, salesFiles) ==
    LET attendanceData == mergeAttendanceData(parsedDataOf(attendanceFiles))
        salesData == mergeSalesData(parsedDataOf(salesFiles))
        allSalespeople == distinctNames(namesOf(attendanceData) \o namesOf(salesData))
    IN  [i \in 1..Len(allSalespeople) |->
            consolidate(allSalespeople[i], attendanceData, salesData)]

\* files.map(f => f.content).join('\n\n')
RECURSIVE joinContents(_)
joinContents(files) ==
    IF Len(files) = 0 THEN <<>>
    ELSE IF Len(files) = 1 THEN files[1].content
    ELSE files[1].content \o <<LF, LF>> \o joinContents(Tail(files))

\* the calendar day of a Date
dateParts(date) ==
    LET days == date \div HoursPerDay
        year == CHOOSE y \in (1970 + days \div 366)..(1970 + days \div 365) :
                    DateOf(y, 1, 1) <= date /\ date < DateOf(y + 1, 1, 1)
        month == CHOOSE m \in 1..12 :
                     DateOf(year, m, 1) <= date /\ (m = 12 \/ date < DateOf(year, m + 1, 1))
    IN  [year |-> year, month |-> month,
         day |-> (date - DateOf(year, month, 1)) \div HoursPerDay + 1]

\* the last `width` decimal digits of n, zero-padded
padded(n, width) == [i \in 1..width |-> Digits[((n \div Pow10(width - i)) % 10) + 1]]

\* date-fns format(date, "dd/MM/yy") and format(date, "dd/MM/yyyy")
format(date, fmt) ==
    Let(dateParts(date), LAMBDA parts :
        padded(parts.day, 2) \o <<"/">> \o padded(parts.month, 2) \o <<"/">>
          \o (IF fmt = "dd/MM/yy" THEN padded(parts.year, 2) ELSE padded(parts.year, 4)))

SNoData == <<"N", "e", "n", "h", "u", "m", " ", "d", "a", "d", "o", " ", "p", "a", "r", "a", " ", "o", " ", "p", "e", "r", "í", "o", "d", "o">>
SNoPeriod == <<"N", "e", "n", "h", "u", "m", " ", "p", "e", "r", "í", "o", "d", "o", " ", "d", "e", " ", "a", "t", "e", "n", "d", "i", "m", "e", "n", "t", "o", " ", "c", "a", "r", "r", "e", "g", "a", "d", "o">>
SNotAvailable == <<"N", "/", "A">>
SDash == <<" ", "-", " ">>

\* Math.min / Math.max over the start and the end of every file
RECURSIVE minDateOf(_)
minDateOf(files) ==
    IF Len(files) = 1 THEN Min(files[1].dateRange.start, files[1].dateRange.end)
    ELSE Min(Min(files[1].dateRange.start, files[1].dateRange.end), minDateOf(Tail(files)))

RECURSIVE maxDateOf(_)
maxDateOf(files) ==
    LET Max(a, b) == IF a > b THEN a ELSE b
    IN  IF Len(files) = 1 THEN Max(files[1].dateRange.start, files[1].dateRange.end)
        ELSE Max(Max(files[1].dateRange.start, files[1].dateRange.end),
                 maxDateOf(Tail(files)))

\* activeData.displayDateRange of sales-analyzer.tsx
displayDateRangeOf(attendanceFiles, salesFiles, filter) ==
    IF Len(attendanceFiles) = 0 /\ Len(salesFiles) = 0 THEN SNoData
    ELSE IF filter.from # NoDate
    THEN format(filter.from, "dd/MM/yy")
           \o (IF filter.to # NoDate THEN SDash \o format(filter.to, "dd/MM/yy") ELSE <<>>)
    ELSE IF Len(attendanceFiles) > 0
    THEN format(minDateOf(attendanceFiles), "dd/MM/yyyy") \o SDash
           \o format(maxDateOf(attendanceFiles), "dd/MM/yyyy")
    ELSE SNoPeriod

\* what the summary effect of sales-analyzer.tsx depends on: the two
\* combined CSVs and the displayed range of activeData
summaryInputOf(attendanceFiles, salesFiles, filter) ==
    IF Len(attendanceFiles) = 0 /\ Len(salesFiles) = 0
    THEN [attendanceCsvData |-> <<>>, salesCsvData |-> <<>>, dateRange |-> SNoData]
    ELSE [attendanceCsvData |->
              joinContents(attendanceFilesToProcess(attendanceFiles, filter)),
          salesCsvData |-> joinContents(salesFiles),
          dateRange |-> displayDateRangeOf(attendanceFiles, salesFiles, filter)]

\* the input of summarizeSalesData in runAiAnalysis of part_002
summaryInputOf2(attendanceFiles, salesFiles) ==
    [attendanceCsvData |-> joinContents(attendanceFiles),
     salesCsvData |-> joinContents(salesFiles),
     dateRange |-> IF Len(attendanceFiles) > 0
                   THEN format(minDateOf(attendanceFiles), "dd/MM/yyyy") \o SDash
                          \o format(maxDateOf(attendanceFiles), "dd/MM/yyyy")
                   ELSE SNotAvailable]

-----------------------------------------------------------------------------
(* The component: state, inputs and handlers.                              *)

VARIABLES
    revision,               \* "slots" or "batch": which revision runs
    loadedAttendanceFiles,  \* useState<LoadedAttendanceFile[]>
    loadedSalesFiles,       \* useState<LoadedSalesFile[]>
    filterDateRange,        \* useState<DateRange | undefined> ("slots" only)
    isLoading,              \* useState(false)
    reads,                  \* "slots": the FileReaders that have not settled
    batches,                \* "batch": the uploads whose Promise.all is pending
    toasts,                 \* the toasts shown by the last step
    aiSummary,              \* useState<SalesSummaryOutput | null>
    isAiLoading,            \* useState(false)
    requests,               \* the calls of summarizeSalesData that have not settled
    requested,              \* how many calls of summarizeSalesData were made so far
    pure                    \* input and result of the pure functions run on their own

vars == <<revision, loadedAttendanceFiles, loadedSalesFiles, filterDateRange,
          isLoading, reads, batches, toasts, aiSummary, isAiLoading, requests,
          requested, pure>>

aiVars == <<aiSummary, isAiLoading, requests, requested>>

\* at most this many files are loaded or being read at any time
MaxFiles == 2

\* at most this many calls of summarizeSalesData are made in a run of Spec
MaxRequests == 1


\* attendance of January: Ana at 08h and 09h, Dan at 08h only:
\*   2024/01/01 - 2024/01/31
\*   ;08h;;09h;
\*   Vendedor;At.;Pot.;At.;Pot.
\*   Ana;5;1;3;0
\*   Dan;10;0;;
AttJan ==
    <<"2", "0", "2", "4", "/", "0", "1", "/", "0", "1", " ", "-", " ", "2",
      "0", "2", "4", "/", "0", "1", "/", "3", "1", LF,
      ";", "0", "8", "h", ";", ";", "0", "9", "h", ";", LF,
      "V", "e", "n", "d", "e", "d", "o", "r", ";", "A", "t", ".", ";", "P",
      "o", "t", ".", ";", "A", "t", ".", ";", "P", "o", "t", ".", LF,
      "A", "n", "a", ";", "5", ";", "1", ";", "3", ";", "0", LF,
      "D", "a", "n", ";", "1", "0", ";", "0", ";", ";">>

\* attendance of 12 to 20 January, later date first: a coded label, an unparseable
\* cell, a negative cell, a Total row, and Eve with no attendances:
\*   20/01/2024 a 12/01/2024\r
\*   ;08h;;10h;\r
\*   Vendedor;At.;Pot.;At.;Pot.\r
\*   1-7 Ana (F);3;x;-2;1\r
\*   Total;1;1;1;1\r
\*   Eve;0;2;;
AttMid ==
    <<"2", "0", "/", "0", "1", "/", "2", "0", "2", "4", " ", "a", " ", "1",
      "2", "/", "0", "1", "/", "2", "0", "2", "4", CR, LF,
      ";", "0", "8", "h", ";", ";", "1", "0", "h", ";", CR, LF,
      "V", "e", "n", "d", "e", "d", "o", "r", ";", "A", "t", ".", ";", "P",
      "o", "t", ".", ";", "A", "t", ".", ";", "P", "o", "t", ".", CR, LF,
      "1", "-", "7", " ", "A", "n", "a", " ", "(", "F", ")", ";", "3", ";",
      "x", ";", "-", "2", ";", "1", CR, LF,
      "T", "o", "t", "a", "l", ";", "1", ";", "1", ";", "1", ";", "1", CR,
      LF,
      "E", "v", "e", ";", "0", ";", "2", ";", ";">>

\* an attendance file whose metric header does not start with Vendedor:
\*   2024/01/01 - 2024/01/31
\*   ;08h;
\*   Nome;At.;Pot.
\*   Ana;5;1
AttBad ==
    <<"2", "0", "2", "4", "/", "0", "1", "/", "0", "1", " ", "-", " ", "2",
      "0", "2", "4", "/", "0", "1", "/", "3", "1", LF,
      ";", "0", "8", "h", ";", LF,
      "N", "o", "m", "e", ";", "A", "t", ".", ";", "P", "o", "t", ".", LF,
      "A", "n", "a", ";", "5", ";", "1">>

\* sales of Ana and of Carol, who has no attendance:
\*   Vendedor;Vendas
\*   Ana;;5;;;;1,5;;100,00;;20,00
\*   1-7 Carol (F);;10;;;;2;;1.234,56;;123,45
SalOne ==
    <<"V", "e", "n", "d", "e", "d", "o", "r", ";", "V", "e", "n", "d", "a",
      "s", LF,
      "A", "n", "a", ";", ";", "5", ";", ";", ";", ";", "1", ",", "5", ";",
      ";", "1", "0", "0", ",", "0", "0", ";", ";", "2", "0", ",", "0", "0",
      LF,
      "1", "-", "7", " ", "C", "a", "r", "o", "l", " ", "(", "F", ")", ";",
      ";", "1", "0", ";", ";", ";", ";", "2", ";", ";", "1", ".", "2", "3",
      "4", ",", "5", "6", ";", ";", "1", "2", "3", ",", "4", "5">>

\* sales with a negative count (returns) for Ana, a short row, and Eve:
\*   Vendedor;Vendas
\*   Ana;;-5;;;;2;;50;;10
\*   Bob;3
\*   Eve;;4;;;;1;;40;;10
SalNeg ==
    <<"V", "e", "n", "d", "e", "d", "o", "r", ";", "V", "e", "n", "d", "a",
      "s", LF,
      "A", "n", "a", ";", ";", "-", "5", ";", ";", ";", ";", "2", ";", ";",
      "5", "0", ";", ";", "1", "0", LF,
      "B", "o", "b", ";", "3", LF,
      "E", "v", "e", ";", ";", "4", ";", ";", ";", ";", "1", ";", ";", "4",
      "0", ";", ";", "1", "0">>

\* a file with a date header and no `vendedor`:
\*   2024/01/01 - 2024/01/31
\*   Ana;;5;;;;1;;10;;2
SalBad ==
    <<"2", "0", "2", "4", "/", "0", "1", "/", "0", "1", " ", "-", " ", "2",
      "0", "2", "4", "/", "0", "1", "/", "3", "1", LF,
      "A", "n", "a", ";", ";", "5", ";", ";", ";", ";", "1", ";", ";", "1",
      "0", ";", ";", "2">>

\* what the user can pick: Files, each with a name and the text its read
\* yields; both names occur in both dialects
Files ==
    {[name |-> "a.csv", text |-> AttJan], [name |-> "b.csv", text |-> AttMid],
     [name |-> "b.csv", text |-> AttBad], [name |-> "a.csv", text |-> SalOne],
     [name |-> "b.csv", text |-> SalNeg], [name |-> "a.csv", text |-> SalBad]}

\* the days the user can pick in the calendar: 10 and 15 January 2024, at
\* 00:00
FilterDays == {DateOf(2024, 1, 10), DateOf(2024, 1, 15)}

\* the values the range calendar hands to setFilterDateRange: nothing, one
\* day, or two days in order
Filters ==
    {NoFilter}
    \cup {[from |-> a, to |-> NoDate] : a \in FilterDays}
    \cup {f \in [from : FilterDays, to : FilterDays] : f.from < f.to}

\* the texts a read can yield
Texts == {f.text : f \in Files}

\* what each parser makes of each text (each parse is evaluated once)
attendanceParses == [t \in Texts |-> parseAttendanceCsv(t)]
salesParses == [t \in Texts |-> parseSalesCsv(t)]
attendanceParses2 == [t \in Texts |-> parseAttendanceCsv2(t)]
salesParses2 == [t \in Texts |-> parseSalesCsv2(t)]
sniffedAttendance == [t \in Texts |-> includes(t, SAtPot)]

Toast(title, description) == [title |-> title, description |-> description]

\* arr without its element i
RemoveAt(arr, i) == SubSeq(arr, 1, i - 1) \o SubSeq(arr, i + 1, Len(arr))

\* files.some(f => f.name === name)
someNamed(files, name) == \E i \in 1..Len(files) : files[i].name = name

RECURSIVE sumLen(_)
sumLen(bs) ==
    IF Len(bs) = 0 THEN 0
    ELSE Len(bs[1].pending) + Len(bs[1].newAttendanceFiles) + Len(bs[1].newSalesFiles)
           + sumLen(Tail(bs))

\* the files that are loaded or on their way
FileCount ==
    Len(loadedAttendanceFiles) + Len(loadedSalesFiles) + Len(reads) + sumLen(batches)

NoPure == [done |-> FALSE, datasets |-> <<>>, merged |-> <<>>]

Init ==
    /\ revision \in {"slots", "batch"}
    /\ loadedAttendanceFiles = <<>>
    /\ loadedSalesFiles = <<>>
    /\ filterDateRange = NoFilter
    /\ isLoading = FALSE
    /\ reads = <<>>
    /\ batches = <<>>
    /\ toasts = <<>>
    /\ aiSummary = Null
    /\ isAiLoading = FALSE
    /\ requests = <<>>
    /\ requested = 0
    /\ pure = NoPure

-----------------------------------------------------------------------------
(* The handlers of src/src/components/sales-analyzer.tsx.                   *)

\* handleFileUpload looking for the name in the lists of both slots
handleFileUploadAnySlot(file, type) ==
    /\ revision = "slots"
    /\ LET existingFiles == loadedAttendanceFiles \o loadedSalesFiles
       IN  IF someNamed(existingFiles, file.name)
           THEN /\ toasts' = <<Toast("Arquivo Duplicado", file.name)>>
                /\ UNCHANGED <<isLoading, reads>>
           ELSE /\ FileCount < MaxFiles
                /\ isLoading' = TRUE
                /\ reads' = Append(reads, [file |-> file, type |-> type])
                /\ toasts' = <<>>
    /\ UNCHANGED <<revision, loadedAttendanceFiles, loadedSalesFiles, filterDateRange,
                   batches, pure>>
    /\ UNCHANGED aiVars

\* handleFileUpload(event, type): a file whose name is already in the list
\* of its slot is refused, any other file is read
handleFileUpload(file, type) ==
    /\ revision = "slots"
    /\ LET existingFiles == IF type = "attendance" THEN loadedAttendanceFiles
                            ELSE loadedSalesFiles
       IN  IF someNamed(existingFiles, file.name)
           THEN /\ toasts' = <<Toast("Arquivo Duplicado", file.name)>>
                /\ UNCHANGED <<isLoading, reads>>
           ELSE /\ FileCount < MaxFiles
                /\ isLoading' = TRUE
                /\ reads' = Append(reads, [file |-> file, type |-> type])
                /\ toasts' = <<>>
    /\ UNCHANGED <<revision, loadedAttendanceFiles, loadedSalesFiles, filterDateRange,
                   batches, pure>>
    /\ UNCHANGED aiVars

\* filesAfterOnload emptying the list of the slot when the parse throws
filesAfterOnloadClearing(attendanceFiles, salesFiles, read) ==
    LET file == read.file
        text == file.text
    IN  IF read.type = "attendance"
        THEN Let(attendanceParses[text], LAMBDA att :
                 [attendanceFiles |->
                      IF att.ok
                      THEN Append(attendanceFiles,
                                  [name |-> file.name, content |-> text,
                                   dateRange |-> att.dateRange, parsedData |-> att.data])
                      ELSE <<>>,
                  salesFiles |-> salesFiles])
        ELSE Let(salesParses[text], LAMBDA sal :
                 [attendanceFiles |-> attendanceFiles,
                  salesFiles |->
                      IF sal.ok
                      THEN Append(salesFiles,
                                  [name |-> file.name, content |-> text,
                                   parsedData |-> sal.data])
                      ELSE <<>>])

\* the two lists after reader.onload of `read`: the file is appended to the
\* list of its slot when its parse returns, and to none when it throws
filesAfterOnload(attendanceFiles, salesFiles, read) ==
    LET file == read.file
        text == file.text
    IN  IF read.type = "attendance"
        THEN Let(attendanceParses[text], LAMBDA att :
                 [attendanceFiles |->
                      IF att.ok
                      THEN Append(attendanceFiles,
                                  [name |-> file.name, content |-> text,
                                   dateRange |-> att.dateRange, parsedData |-> att.data])
                      ELSE attendanceFiles,
                  salesFiles |-> salesFiles])
        ELSE Let(salesParses[text], LAMBDA sal :
                 [attendanceFiles |-> attendanceFiles,
                  salesFiles |->
                      IF sal.ok
                      THEN Append(salesFiles,
                                  [name |-> file.name, content |-> text,
                                   parsedData |-> sal.data])
                      ELSE salesFiles])

\* the toast of reader.onload of `read`
toastAfterOnload(read) ==
    IF read.type = "attendance"
    THEN Let(attendanceParses[read.file.text], LAMBDA att :
             IF att.ok THEN Toast("Arquivo de Atendimento Carregado", read.file.name)
             ELSE Toast("Falha no Upload", att.error))
    ELSE Let(salesParses[read.file.text], LAMBDA sal :
             IF sal.ok THEN Toast("Arquivo de Vendas Carregado", read.file.name)
             ELSE Toast("Falha no Upload", sal.error))

\* the summary effect (useEffect) after a render with the given lists and
\* filter, `summary` being the aiSummary the handler leaves: it runs when
\* one of its dependencies has changed, clears the summary when a combined
\* CSV is empty and calls summarizeSalesData otherwise
summaryEffect(attendanceFiles, salesFiles, filter, summary) ==
    \E before \in {summaryInputOf(loadedAttendanceFiles, loadedSalesFiles, filterDateRange)},
       after \in {summaryInputOf(attendanceFiles, salesFiles, filter)} :
        IF after = before
        THEN /\ aiSummary' = summary
             /\ UNCHANGED <<isAiLoading, requests, requested>>
        ELSE IF after.attendanceCsvData = <<>> \/ after.salesCsvData = <<>>
        THEN /\ aiSummary' = Null
             /\ UNCHANGED <<isAiLoading, requests, requested>>
        ELSE /\ aiSummary' = summary
             /\ isAiLoading' = TRUE
             /\ requests' = Append(requests, after)
             /\ requested' = requested + 1

\* reader.onload of read i: parse, append on success, toast, finally; then
\* the summary effect of the new lists
readerOnload(i) ==
    /\ revision = "slots"
    /\ i \in 1..Len(reads)
    /\ \E after \in {filesAfterOnload(loadedAttendanceFiles, loadedSalesFiles, reads[i])} :
           /\ loadedAttendanceFiles' = after.attendanceFiles
           /\ loadedSalesFiles' = after.salesFiles
           /\ summaryEffect(after.attendanceFiles, after.salesFiles, filterDateRange,
                            aiSummary)
    /\ toasts' = <<toastAfterOnload(reads[i])>>
    /\ isLoading' = FALSE
    /\ reads' = RemoveAt(reads, i)
    /\ UNCHANGED <<revision, filterDateRange, batches, pure>>

\* reader.onerror leaving isLoading as it is
readerOnerrorStillLoading(i) ==
    /\ revision = "slots"
    /\ i \in 1..Len(reads)
    /\ toasts' = <<Toast("Erro de Leitura de Arquivo", "")>>
    /\ reads' = RemoveAt(reads, i)
    /\ UNCHANGED <<revision, loadedAttendanceFiles, loadedSalesFiles, filterDateRange,
                   isLoading, batches, pure>>
    /\ UNCHANGED aiVars

\* reader.onerror of read i
readerOnerror(i) ==
    /\ revision = "slots"
    /\ i \in 1..Len(reads)
    /\ isLoading' = FALSE
    /\ toasts' = <<Toast("Erro de Leitura de Arquivo", "")>>
    /\ reads' = RemoveAt(reads, i)
    /\ UNCHANGED <<revision, loadedAttendanceFiles, loadedSalesFiles, filterDateRange,
                   batches, pure>>
    /\ UNCHANGED aiVars

\* the calendar's onSelect, then the summary effect of the new filter
setFilterDateRange(range) ==
    /\ revision = "slots"
    /\ range # filterDateRange
    /\ filterDateRange' = range
    /\ toasts' = <<>>
    /\ summaryEffect(loadedAttendanceFiles, loadedSalesFiles, range, aiSummary)
    /\ UNCHANGED <<revision, loadedAttendanceFiles, loadedSalesFiles, isLoading,
                   reads, batches, pure>>

\* resetData leaving the date filter as it is
resetDataKeepingFilter ==
    /\ revision = "slots"
    /\ loadedAttendanceFiles' = <<>>
    /\ loadedSalesFiles' = <<>>
    /\ toasts' = <<Toast("Dados Resetados", "")>>
    /\ summaryEffect(<<>>, <<>>, filterDateRange, Null)
    /\ UNCHANGED <<revision, filterDateRange, isLoading, reads, batches, pure>>

\* resetData, then the summary effect of the empty lists
resetData ==
    /\ revision = "slots"
    /\ loadedAttendanceFiles' = <<>>
    /\ loadedSalesFiles' = <<>>
    /\ filterDateRange' = NoFilter
    /\ toasts' = <<Toast("Dados Resetados", "")>>
    /\ summaryEffect(<<>>, <<>>, NoFilter, Null)
    /\ UNCHANGED <<revision, isLoading, reads, batches, pure>>

\* summarizeSalesData of request i resolves: .then(setAiSummary), .finally
summaryResolved(i) ==
    /\ i \in 1..Len(requests)
    /\ aiSummary' = [summaryOf |-> requests[i]]
    /\ isAiLoading' = FALSE
    /\ requests' = RemoveAt(requests, i)
    /\ toasts' = <<>>
    /\ UNCHANGED <<revision, loadedAttendanceFiles, loadedSalesFiles, filterDateRange,
                   isLoading, reads, batches, pure, requested>>

\* summaryRejected leaving the summary as it is
summaryRejectedKeepingSummary(i) ==
    /\ i \in 1..Len(requests)
    /\ isAiLoading' = FALSE
    /\ requests' = RemoveAt(requests, i)
    /\ toasts' = <<Toast("Falha na Análise de IA", "")>>
    /\ UNCHANGED <<revision, loadedAttendanceFiles, loadedSalesFiles, filterDateRange,
                   isLoading, reads, batches, pure, aiSummary, requested>>

\* summarizeSalesData of request i rejects (the service fails, or
\* salesSummaryFlow throws for no output): .catch, .finally
summaryRejected(i) ==
    /\ i \in 1..Len(requests)
    /\ aiSummary' = Null
    /\ isAiLoading' = FALSE
    /\ requests' = RemoveAt(requests, i)
    /\ toasts' = <<Toast("Falha na Análise de IA", "")>>
    /\ UNCHANGED <<revision, loadedAttendanceFiles, loadedSalesFiles, filterDateRange,
                   isLoading, reads, batches, pure, requested>>

\* the derived view of the current state
consolidatedData ==
    IF revision = "slots"
    THEN consolidatedDataOf(loadedAttendanceFiles, loadedSalesFiles, filterDateRange)
    ELSE consolidatedDataOf2(loadedAttendanceFiles, loadedSalesFiles)

-----------------------------------------------------------------------------
(* The handlers of src/unnamed/part_002.                                   *)

\* handleFileUpload(event) of part_002 for a non-empty FileList: one reader
\* per file; the batch keeps what the handler's closure holds, the FileList
\* and the two lists of the render that created the handler
handleFileUpload2(files) ==
    /\ revision = "batch"
    /\ Len(files) >= 1
    /\ FileCount + Len(files) <= MaxFiles
    /\ isLoading' = TRUE
    /\ batches' = Append(batches,
                         [files |-> files,
                          pending |-> files,
                          newAttendanceFiles |-> <<>>,
                          newSalesFiles |-> <<>>,
                          errors |-> <<>>,
                          loadedAttendanceFiles |-> loadedAttendanceFiles,
                          loadedSalesFiles |-> loadedSalesFiles])
    /\ toasts' = <<>>
    /\ UNCHANGED <<revision, loadedAttendanceFiles, loadedSalesFiles, filterDateRange,
                   reads, pure>>
    /\ UNCHANGED aiVars

\* batch b after reader.onload of its pending file i
batchAfterOnload(b, i) ==
    LET file == b.pending[i]
        text == file.text
        rest == [b EXCEPT !.pending = RemoveAt(b.pending, i)]
    IN  IF sniffedAttendance[text]
        THEN IF someNamed(b.loadedAttendanceFiles, file.name) THEN rest
             ELSE Let(attendanceParses2[text], LAMBDA att :
                      IF att.ok
                      THEN [rest EXCEPT !.newAttendanceFiles =
                               Append(@, [name |-> file.name, content |-> text,
                                          dateRange |-> att.dateRange,
                                          parsedData |-> att.data])]
                      ELSE [rest EXCEPT !.errors = Append(@, att.error)])
        ELSE IF someNamed(b.loadedSalesFiles, file.name) THEN rest
             ELSE Let(salesParses2[text], LAMBDA sal :
                      IF sal.ok
                      THEN [rest EXCEPT !.newSalesFiles =
                               Append(@, [name |-> file.name, content |-> text,
                                          parsedData |-> sal.data])]
                      ELSE [rest EXCEPT !.errors = Append(@, sal.error)])

\* batch b after reader.onerror of its pending file i
batchAfterOnerror(b, i) ==
    [b EXCEPT !.pending = RemoveAt(b.pending, i), !.errors = Append(@, "readError")]

\* a reader of batch k has settled and left the batch as b: when it was the
\* last one, Promise.all(filePromises).then(...) runs
batchSettled(k, b) ==
    IF Len(b.pending) > 0
    THEN /\ batches' = [batches EXCEPT ![k] = b]
         /\ toasts' = <<>>
         /\ UNCHANGED <<loadedAttendanceFiles, loadedSalesFiles, isLoading>>
    ELSE /\ loadedAttendanceFiles' = loadedAttendanceFiles \o b.newAttendanceFiles
         /\ loadedSalesFiles' = loadedSalesFiles \o b.newSalesFiles
         /\ toasts' =
               (IF Len(b.newAttendanceFiles) + Len(b.newSalesFiles) > 0
                THEN <<Toast("Arquivos Carregados", "")>> ELSE <<>>)
               \o (IF Len(b.errors) > 0
                   THEN <<Toast("Erros no Upload", b.errors)>> ELSE <<>>)
         /\ isLoading' = FALSE
         /\ batches' = RemoveAt(batches, k)

readerOnload2(k, i) ==
    /\ revision = "batch"
    /\ k \in 1..Len(batches)
    /\ i \in 1..Len(batches[k].pending)
    /\ batchSettled(k, batchAfterOnload(batches[k], i))
    /\ UNCHANGED <<revision, filterDateRange, reads, pure>>
    /\ UNCHANGED aiVars

readerOnerror2(k, i) ==
    /\ revision = "batch"
    /\ k \in 1..Len(batches)
    /\ i \in 1..Len(batches[k].pending)
    /\ batchSettled(k, batchAfterOnerror(batches[k], i))
    /\ UNCHANGED <<revision, filterDateRange, reads, pure>>
    /\ UNCHANGED aiVars

\* runAiAnalysis of part_002: the button asks for a summary of what is loaded
runAiAnalysis ==
    /\ revision = "batch"
    /\ \E input \in {summaryInputOf2(loadedAttendanceFiles, loadedSalesFiles)} :
           IF input.attendanceCsvData = <<>> \/ input.salesCsvData = <<>>
           THEN /\ toasts' = <<Toast("Dados Incompletos", "")>>
                /\ UNCHANGED aiVars
           ELSE /\ isAiLoading' = TRUE
                /\ requests' = Append(requests, input)
                /\ requested' = requested + 1
                /\ toasts' = <<>>
                /\ UNCHANGED aiSummary
    /\ UNCHANGED <<revision, loadedAttendanceFiles, loadedSalesFiles, filterDateRange,
                   isLoading, reads, batches, pure>>

\* the FileLists the user can pick
RECURSIVE FileLists(_)
FileLists(n) ==
    IF n = 0 THEN {<<>>}
    ELSE FileLists(n - 1)
           \cup {Append(fl, f) : fl \in {g \in FileLists(n - 1) : Len(g) = n - 1}, f \in Files}

AllFileLists == FileLists(MaxFiles) \ {<<>>}

-----------------------------------------------------------------------------

\* hasFiles of part_002; the file inputs are disabled while isLoading, and the
\* analysis button of part_002 while isAiLoading or without files.
hasFiles == Len(loadedAttendanceFiles) > 0 \/ Len(loadedSalesFiles) > 0

Upload == /\ ~isLoading
          /\ \E file \in Files, type \in {"attendance", "sales"} :
                 handleFileUpload(file, type)

ReadLoaded == \E i \in 1..MaxFiles : readerOnload(i) /\ requested' <= MaxRequests

ReadFailed == \E i \in 1..MaxFiles : readerOnerror(i)

SelectFilter == \E range \in Filters :
                    setFilterDateRange(range) /\ requested' <= MaxRequests

RunAiAnalysis == /\ ~isAiLoading /\ hasFiles
                 /\ runAiAnalysis /\ requested' <= MaxRequests

UploadBatch == /\ ~isLoading
               /\ \E files \in AllFileLists : handleFileUpload2(files)

BatchReadLoaded == \E k \in 1..MaxFiles, i \in 1..MaxFiles : readerOnload2(k, i)

BatchReadFailed == \E k \in 1..MaxFiles, i \in 1..MaxFiles : readerOnerror2(k, i)

SummaryResolved == \E i \in 1..Len(requests) : summaryResolved(i)

SummaryRejected == \E i \in 1..Len(requests) : summaryRejected(i)

Next ==
    \/ Upload
    \/ ReadLoaded
    \/ ReadFailed
    \/ SelectFilter
    \/ resetData
    \/ UploadBatch
    \/ BatchReadLoaded
    \/ BatchReadFailed
    \/ RunAiAnalysis
    \/ SummaryResolved
    \/ SummaryRejected

Spec == Init /\ [][Next]_vars

\* The component with readers that settle: a FileReader that has been started
\* fires onload or onerror in the end, whatever else the user does meanwhile.
SpecReadersSettle ==
    /\ Init /\ [][Next]_vars
    /\ WF_vars(ReadLoaded \/ ReadFailed)
    /\ WF_vars(BatchReadLoaded \/ BatchReadFailed)

-----------------------------------------------------------------------------
(* The summary requests racing: the component with one attendance file and *)
(* one sales file to pick, and up to MaxRacing summaries requested.        *)

\* at most this many calls of summarizeSalesData are made in a run of
\* SpecSummary
MaxRacing == 2

SummaryFiles == {[name |-> "a.csv", text |-> AttJan], [name |-> "b.csv", text |-> SalOne]}

SummaryUpload == /\ ~isLoading
                 /\ \E file \in SummaryFiles, type \in {"attendance", "sales"} :
                        handleFileUpload(file, type)

SummaryReadLoaded == \E i \in 1..MaxFiles : readerOnload(i) /\ requested' <= MaxRacing

SummarySelectFilter == \E range \in Filters :
                           setFilterDateRange(range) /\ requested' <= MaxRacing

SummaryUploadBatch ==
    /\ ~isLoading
    /\ \E files \in {fl \in AllFileLists : \A i \in 1..Len(fl) : fl[i] \in SummaryFiles} :
           handleFileUpload2(files)

SummaryRunAiAnalysis == /\ ~isAiLoading /\ hasFiles
                        /\ runAiAnalysis /\ requested' <= MaxRacing

NextSummary ==
    \/ SummaryUpload
    \/ SummaryReadLoaded
    \/ ReadFailed
    \/ SummarySelectFilter
    \/ resetData
    \/ SummaryUploadBatch
    \/ BatchReadLoaded
    \/ BatchReadFailed
    \/ SummaryRunAiAnalysis
    \/ SummaryResolved
    \/ SummaryRejected

SpecSummary == Init /\ [][NextSummary]_vars

-----------------------------------------------------------------------------
(* The attendance merger on its own: any list of datasets.                 *)

Ana == <<"A", "n", "a">>
Bob == <<"B", "o", "b">>

Bucket(hour, attendances, potentials) ==
    [hour |-> hour, attendances |-> attendances, potentials |-> potentials]

Person(salesperson, hourly, totalAttendances, totalPotentials) ==
    [salesperson |-> salesperson, hourly |-> hourly,
     totalAttendances |-> totalAttendances, totalPotentials |-> totalPotentials]

\* records a dataset can hold: shared and one-sided hours, hours out of
\* order, a negative count, an empty record, stale totals
PersonRecords ==
    {Person(Ana, <<Bucket(8, 5, 1), Bucket(9, 3, 0)>>, 8, 1),
     Person(Ana, <<Bucket(8, 3, 2)>>, 3, 2),
     Person(Ana, <<Bucket(10, -2, 1), Bucket(8, 1, 0)>>, 0, 0),
     Person(Bob, <<Bucket(9, 4, 4)>>, 4, 4),
     Person(Bob, <<>>, 0, 0)}

\* a dataset: no record, one record, or two records
Datasets ==
    {<<>>} \cup {<<p>> : p \in PersonRecords}
           \cup {<<p, q>> : p \in PersonRecords, q \in PersonRecords}

\* at most this many datasets are merged
MaxDatasets == 2

RECURSIVE DatasetLists(_)
DatasetLists(n) ==
    IF n = 0 THEN {<<>>}
    ELSE DatasetLists(n - 1)
           \cup {Append(l, d) : l \in {g \in DatasetLists(n - 1) : Len(g) = n - 1},
                                d \in Datasets}

AllDatasetLists == DatasetLists(MaxDatasets)

InitMerge ==
    /\ revision = "slots"
    /\ loadedAttendanceFiles = <<>>
    /\ loadedSalesFiles = <<>>
    /\ filterDateRange = NoFilter
    /\ isLoading = FALSE
    /\ reads = <<>>
    /\ batches = <<>>
    /\ toasts = <<>>
    /\ aiSummary = Null
    /\ isAiLoading = FALSE
    /\ requests = <<>>
    /\ requested = 0
    /\ pure \in {[done |-> FALSE, datasets |-> l, merged |-> <<>>] : l \in AllDatasetLists}

\* mergeAttendanceData(datasets) is called and returns
callMergeAttendanceData ==
    /\ ~pure.done
    /\ pure' = [pure EXCEPT !.done = TRUE, !.merged = mergeAttendanceData(pure.datasets)]
    /\ UNCHANGED <<revision, loadedAttendanceFiles, loadedSalesFiles, filterDateRange,
                   isLoading, reads, batches, toasts, aiSummary, isAiLoading, requests,
                   requested>>

NextMerge == callMergeAttendanceData

SpecMerge == InitMerge /\ [][NextMerge]_vars

-----------------------------------------------------------------------------
(* The date-range extractor on its own: any header line.                   *)

\* the component with nothing loaded and nothing in flight
ComponentIdle ==
    /\ revision = "slots"
    /\ loadedAttendanceFiles = <<>>
    /\ loadedSalesFiles = <<>>
    /\ filterDateRange = NoFilter
    /\ isLoading = FALSE
    /\ reads = <<>>
    /\ batches = <<>>
    /\ toasts = <<>>
    /\ aiSummary = Null
    /\ isAiLoading = FALSE
    /\ requests = <<>>
    /\ requested = 0

componentVars == <<revision, loadedAttendanceFiles, loadedSalesFiles, filterDateRange,
                   isLoading, reads, batches, toasts, aiSummary, isAiLoading, requests,
                   requested>>

\* the dates a header can hold: year first, day first, two-digit year,
\* with `/` or `-`, 31 February, and 1 January 1970
DateTexts ==
    {<<"2", "0", "2", "4", "/", "0", "1", "/", "0", "1">>,
     <<"2", "0", "2", "4", "/", "0", "1", "/", "3", "1">>,
     <<"3", "1", "/", "0", "1", "/", "2", "0", "2", "4">>,
     <<"1", "2", "/", "0", "1", "/", "2", "0", "2", "4">>,
     <<"1", "/", "2", "/", "2", "4">>,
     <<"2", "0", "2", "4", "-", "0", "1", "-", "1", "0">>,
     <<"1", "0", "-", "0", "1", "-", "2", "0", "2", "4">>,
     <<"3", "1", "/", "0", "2", "/", "2", "0", "2", "4">>,
     <<"0", "1", "/", "0", "1", "/", "1", "9", "7", "0">>}

\* what stands between the two dates: ` - `, `-`, ` a `, `;`
RangeSeparators == {<<" ", "-", " ">>, <<"-">>, <<" ", "a", " ">>, <<";">>}

\* what stands before the first date: nothing, or `Periodo: `
RangePrefixes == {<<>>, <<"P", "e", "r", "i", "o", "d", "o", ":", " ">>}

\* the header lines: two dates in either order
RangeTexts ==
    {pre \o d1 \o sep \o d2 :
        pre \in RangePrefixes, d1 \in DateTexts, sep \in RangeSeparators, d2 \in DateTexts}

InitDateRange ==
    /\ ComponentIdle
    /\ pure \in {[done |-> FALSE, rangeStr |-> t, range |-> Null] : t \in RangeTexts}

\* parseDateRangeFromString(rangeStr) is called and returns
callParseDateRangeFromString ==
    /\ ~pure.done
    /\ pure' = [pure EXCEPT !.done = TRUE,
                            !.range = parseDateRangeFromString(pure.rangeStr)]
    /\ UNCHANGED componentVars

NextDateRange == callParseDateRangeFromString

SpecDateRange == InitDateRange /\ [][NextDateRange]_vars

-----------------------------------------------------------------------------
(* The sales merger on its own: any list of datasets.                      *)

Sale(salesperson, salesCount, itemsPerSale, totalRevenue, averageTicket) ==
    [salesperson |-> salesperson, salesCount |-> salesCount,
     itemsPerSale |-> itemsPerSale, totalRevenue |-> totalRevenue,
     averageTicket |-> averageTicket]

\* records a parsed sales file can hold: 5 sales of 20, 5 returns, no sale,
\* a rounded average ticket (123,45 for 1.234,56 / 10), a row of zeros
SaleRecords ==
    {Sale(Ana, 5, Rat(3, 2), Num(100), Num(20)),
     Sale(Ana, -5, Num(2), Num(50), Num(10)),
     Sale(Ana, 0, Num(1), Num(40), Num(10)),
     Sale(Bob, 10, Num(2), Rat(123456, 100), Rat(12345, 100)),
     Sale(Bob, 0, Zero, Zero, Zero)}

SaleDatasets ==
    {<<>>} \cup {<<p>> : p \in SaleRecords}
           \cup {<<p, q>> : p \in SaleRecords, q \in SaleRecords}

RECURSIVE SaleDatasetLists(_)
SaleDatasetLists(n) ==
    IF n = 0 THEN {<<>>}
    ELSE SaleDatasetLists(n - 1)
           \cup {Append(l, d) : l \in {g \in SaleDatasetLists(n - 1) : Len(g) = n - 1},
                                d \in SaleDatasets}

InitMergeSales ==
    /\ ComponentIdle
    /\ pure \in {[done |-> FALSE, datasets |-> l, merged |-> <<>>] :
                    l \in SaleDatasetLists(MaxDatasets)}

\* mergeSalesData(datasets) is called and returns
callMergeSalesData ==
    /\ ~pure.done
    /\ pure' = [pure EXCEPT !.done = TRUE, !.merged = mergeSalesData(pure.datasets)]
    /\ UNCHANGED componentVars

NextMergeSales == callMergeSalesData

SpecMergeSales == InitMergeSales /\ [][NextMergeSales]_vars

-----------------------------------------------------------------------------
(* The name normalizer on its own: any label.                              *)

\* what a label can start with: nothing, one code, two codes, a code with
\* no space after it, a code after a space
NamePrefixes ==
    {<<>>,
     <<"1", "-", "7", " ">>,
     <<"1", "-", "7", " ", "2", "-", "3", " ">>,
     <<"1", "2", "-", "3">>,
     <<" ", "1", "-", "7", " ">>}

NameCores ==
    {<<"A", "n", "a">>,
     <<"A", "n", "a", " ", "L", "e", "e">>,
     <<>>}

\* what a label can end with: nothing, one group, two groups, an empty
\* group, a group with a second `(`, a group followed by a space
NameSuffixes ==
    {<<>>,
     <<" ", "(", "F", ")">>,
     <<" ", "(", "A", ")", " ", "(", "B", ")">>,
     <<" ", "(", ")">>,
     <<"(", "a", "(", "b", ")">>,
     <<" ", "(", "F", ")", " ">>}

NameTexts == {pre \o core \o suf : pre \in NamePrefixes, core \in NameCores, suf \in NameSuffixes}

InitClean ==
    /\ ComponentIdle
    /\ pure \in {[done |-> FALSE, name |-> t, once |-> <<>>, twice |-> <<>>] : t \in NameTexts}

\* cleanSalespersonName(name) is called, and called again on what it returned
callCleanSalespersonName ==
    /\ ~pure.done
    /\ pure' = [pure EXCEPT !.done = TRUE,
                            !.once = cleanSalespersonName(pure.name),
                            !.twice = cleanSalespersonName(cleanSalespersonName(pure.name))]
    /\ UNCHANGED componentVars

NextClean == callCleanSalespersonName

SpecClean == InitClean /\ [][NextClean]_vars

-----------------------------------------------------------------------------
(* The two parsers on their own: any text built from the lines below.      *)

\* first lines: a date range, no date, the header of a sales file in two
\* spellings, one date and sales vocabulary, a date range after `Vendedor`
FirstLines ==
    {<<"2", "0", "2", "4", "/", "0", "1", "/", "0", "1", " ", "-", " ",
      "2", "0", "2", "4", "/", "0", "1", "/", "3", "1">>,
     <<"R", "e", "l", "a", "t", "o", "r", "i", "o">>,
     <<"V", "e", "n", "d", "e", "d", "o", "r", ";", "V", "e", "n", "d",
      "a", "s">>,
     <<"V", "E", "N", "D", "E", "D", "O", "R", ";", ";", "T", "o", "t",
      "a", "l", " ", "V", "e", "n", "d", "a", "s">>,
     <<"V", "e", "n", "d", "a", "s", " ", "d", "e", " ", "0", "1", "/",
      "0", "2", "/", "2", "0", "2", "4">>,
     <<"V", "e", "n", "d", "e", "d", "o", "r", " ", "0", "1", "/", "0",
      "1", "/", "2", "4", " ", "-", " ", "3", "1", "/", "0", "1", "/", "2",
      "4">>}

HourLine == <<";", "0", "8", "h", ";", ";", "0", "9", "h", ";">>

\* metric-header lines: the expected one, one in capitals with spaces, one
\* whose first cell is not `vendedor`
MetricLines ==
    {<<"V", "e", "n", "d", "e", "d", "o", "r", ";", "A", "t", ".", ";",
      "P", "o", "t", ".", ";", "A", "t", ".", ";", "P", "o", "t", ".">>,
     <<" ", "V", "E", "N", "D", "E", "D", "O", "R", "E", "S", " ", ";",
      "A", "t", ".", ";", "P", "o", "t", ".">>,
     <<"N", "o", "m", "e", ";", "A", "t", ".", ";", "P", "o", "t", ".",
      ";", "A", "t", ".", ";", "P", "o", "t", ".">>}

\* row lines: a salesperson, a Total row, a row with no name, a sales row,
\* a row with an unparseable and an empty cell, a label that is only a
\* group, a coded label of Ana, a sales row whose label is only a group
RowLines ==
    {<<"A", "n", "a", ";", "5", ";", "1", ";", "3", ";", "0">>,
     <<"T", "o", "t", "a", "l", ";", "9", ";", "9", ";", "9", ";", "9">>,
     <<";", "5", ";", "1">>,
     <<"A", "n", "a", ";", ";", "5", ";", ";", ";", ";", "1", ",", "5",
      ";", ";", "1", "0", "0", ",", "0", "0", ";", ";", "2", "0", ",", "0",
      "0">>,
     <<"E", "v", "e", ";", "x", ";", ";", "2">>,
     <<"(", "F", ")", ";", "1", ";", "2">>,
     <<"1", "-", "7", " ", "A", "n", "a", " ", "(", "F", ")", ";", "2",
      ";", "0">>,
     <<"(", "F", ")", ";", ";", "4", ";", ";", ";", ";", "1", ";", ";",
      "4", "0", ";", ";", "1", "0">>}

\* hour lines for the column mapping: a label in column 0, a Total group;
\* a blank cell before the first label, a label with `total` and an hour,
\* a label that names no hour
ColumnHourLines ==
    {<<"H", "o", "r", "a", ";", "8", "h", ";", ";", "T", "o", "t", "a",
      "l", ";", ";", "1", "0", "h">>,
     <<";", ";", "0", "8", "h", ";", "T", "o", "t", "a", "l", " ", "9",
      "h", ";", ";", "m", "a", "n", "h", "a", ";", "1", "2", "h">>}

\* metric-header lines for the column mapping: the expected one, one with
\* the metrics in another order and an unknown metric, a short one
ColumnMetricLines ==
    {<<"V", "e", "n", "d", "e", "d", "o", "r", ";", "A", "t", ".", ";",
      "P", "o", "t", ".", ";", "A", "t", ".", ";", "P", "o", "t", ".">>,
     <<"V", "e", "n", "d", "e", "d", "o", "r", ";", "P", "o", "t", ".",
      ";", "A", "t", ".", ";", "x", ";", "A", "t", ".", ";", "P", "o", "t",
      ".", ";", "A", "t", ".">>,
     <<"v", "e", "n", "d", "e", "d", "o", "r", ";", "A", "T", ".", ";",
      "p", "o", "t", ".">>}

\* rows for the column mapping: four cells, more cells than header columns,
\* an unparseable, an empty and a negative cell
ColumnRows ==
    {<<"A", "n", "a", ";", "5", ";", "1", ";", "3", ";", "0">>,
     <<"E", "v", "e", ";", "1", ";", "2", ";", "3", ";", "4", ";", "5",
      ";", "6", ";", "7", ";", "8">>,
     <<"D", "a", "n", ";", "x", ";", ";", "2", ";", "-", "1", ";", "7">>}

\* the lines after the metric header: none, one row, or two rows
RowLists ==
    {<<>>} \cup {<<r>> : r \in RowLines} \cup {<<r, q>> : r \in RowLines, q \in RowLines}

\* the lines of a file: the first line alone, with the hour line, and with
\* the metric line and rows
LineLists ==
    {<<f>> : f \in FirstLines}
    \cup {<<f, HourLine>> : f \in FirstLines}
    \cup {<<f, HourLine, m>> \o rs : f \in FirstLines, m \in MetricLines, rs \in RowLists}

\* lines.join('\n')
RECURSIVE joinLines(_)
joinLines(lines) ==
    IF Len(lines) = 0 THEN <<>>
    ELSE IF Len(lines) = 1 THEN lines[1]
    ELSE lines[1] \o <<LF>> \o joinLines(Tail(lines))

\* the lines of the files for the column mapping: the first date range, an
\* hour line, a metric line and one row
ColumnLineLists ==
    {<<f, h, m, r>> : f \in {l \in FirstLines : parseDateRangeFromString(l) # Null},
                      h \in ColumnHourLines, m \in ColumnMetricLines, r \in ColumnRows}

\* the texts: the lines joined, and the same with a line of spaces after the
\* first line and CR LF line ends
CsvTexts ==
    {joinLines(ls) : ls \in LineLists \cup ColumnLineLists}
    \cup {ls[1] \o <<CR, LF, " ", " ", CR, LF>> \o joinLines(Tail(ls)) :
              ls \in {l \in LineLists : Len(l) = 4}}

InitParse ==
    /\ ComponentIdle
    /\ pure \in {[done |-> FALSE, csvText |-> t, attendance |-> <<>>, sales |-> <<>>,
                     attendance2 |-> <<>>, sales2 |-> <<>>] : t \in CsvTexts}

\* the text is handed to the parser of each slot, of both revisions
callParsers ==
    /\ ~pure.done
    /\ pure' = [pure EXCEPT !.done = TRUE,
                            !.attendance = parseAttendanceCsv(pure.csvText),
                            !.sales = parseSalesCsv(pure.csvText),
                            !.attendance2 = parseAttendanceCsv2(pure.csvText),
                            !.sales2 = parseSalesCsv2(pure.csvText)]
    /\ UNCHANGED componentVars

NextParse == callParsers

SpecParse == InitParse /\ [][NextParse]_vars

-----------------------------------------------------------------------------
(* Claims.                                                                 *)

\* the elements of a list
Range(list) == {list[i] : i \in 1..Len(list)}

\* the sum of a field ("attendances" or "potentials") over the buckets of
\* `hourly` whose hour is in `hours`
RECURSIVE FieldSum(_, _, _)
FieldSum(hourly, field, hours) ==
    IF Len(hourly) = 0 THEN 0
    ELSE (IF hourly[1].hour \in hours THEN hourly[1][field] ELSE 0)
           + FieldSum(Tail(hourly), field, hours)

AllHours == 0..99

TotalsAreSums(rec) ==
    /\ rec.totalAttendances = FieldSum(rec.hourly, "attendances", AllHours)
    /\ rec.totalPotentials = FieldSum(rec.hourly, "potentials", AllHours)

\* C1: in every record a parse or a merge returns - the records of every
\* loaded file, of the merge of all loaded files and of the consolidated
\* view - totalAttendances is the sum of the attendances of the record's
\* hourly buckets and totalPotentials the sum of their potentials.
C1_TotalsAreSumsOfHourly ==
    /\ \A f \in Range(loadedAttendanceFiles) : \A rec \in Range(f.parsedData) :
           TotalsAreSums(rec)
    /\ \A rec \in Range(mergeAttendanceData(parsedDataOf(loadedAttendanceFiles))) :
           TotalsAreSums(rec)
    /\ \A rec \in Range(consolidatedData) : TotalsAreSums(rec)

\* two attendance files are loaded and merged: Ana has the hours 8, 9 and 10
C1_Witness ==
    /\ Len(loadedAttendanceFiles) = 2
    /\ \E rec \in Range(consolidatedData) :
           /\ rec.salesperson = Ana
           /\ Len(rec.hourly) = 3
           /\ rec.totalAttendances = 9
           /\ rec.totalPotentials = 2

\* the input records of the merge, the names and the hours among them
MergeInput == flatten(pure.datasets)

InputNames == {p.salesperson : p \in Range(MergeInput)}

InputHours(name) ==
    UNION {{b.hour : b \in Range(p.hourly)} : p \in {q \in Range(MergeInput) : q.salesperson = name}}

\* the sum of a field at one hour over all input records of a name
RECURSIVE InputSum(_, _, _, _)
InputSum(persons, name, hour, field) ==
    IF Len(persons) = 0 THEN 0
    ELSE (IF persons[1].salesperson = name
          THEN FieldSum(persons[1].hourly, field, {hour}) ELSE 0)
           + InputSum(Tail(persons), name, hour, field)

\* C2: mergeAttendanceData returns one record for each name of the input;
\* the record's hours are the union of the hours the input records of that
\* name have, in ascending order with none repeated, and at each hour its
\* attendances and potentials are the sums of that hour's values over all
\* input records of the name.
C2_MergeIsUnionOfHoursWithSums ==
    pure.done =>
        LET merged == pure.merged
        IN  /\ {r.salesperson : r \in Range(merged)} = InputNames
            /\ \A i, j \in 1..Len(merged) :
                   merged[i].salesperson = merged[j].salesperson => i = j
            /\ \A r \in Range(merged) :
                   /\ {b.hour : b \in Range(r.hourly)} = InputHours(r.salesperson)
                   /\ \A k \in 1..(Len(r.hourly) - 1) :
                          r.hourly[k].hour < r.hourly[k + 1].hour
                   /\ \A b \in Range(r.hourly) :
                          /\ b.attendances =
                                 InputSum(MergeInput, r.salesperson, b.hour, "attendances")
                          /\ b.potentials =
                                 InputSum(MergeInput, r.salesperson, b.hour, "potentials")

\* two files with Ana, hour 8 with 5 and with 3 attendances, merged to 8
C2_Witness ==
    /\ pure.done
    /\ pure.datasets = << <<Person(Ana, <<Bucket(8, 5, 1), Bucket(9, 3, 0)>>, 8, 1)>>,
                          <<Person(Ana, <<Bucket(8, 3, 2)>>, 3, 2)>> >>
    /\ pure.merged = <<Person(Ana, <<Bucket(8, 8, 3), Bucket(9, 3, 0)>>, 11, 3)>>

\* C3: for two datasets A and B, mergeAttendanceData([A, B]) and
\* mergeAttendanceData([B, A]) hold the same records (names, hourly buckets
\* and totals), whatever the order of the records in the two lists.
C3_MergeCommutes ==
    (pure.done /\ Len(pure.datasets) = 2) =>
        Range(pure.merged)
          = Range(mergeAttendanceData(<<pure.datasets[2], pure.datasets[1]>>))

\* both datasets have Ana at hour 8, and the two merges list the records in
\* different orders
C3_Witness ==
    /\ pure.done
    /\ Len(pure.datasets) = 2
    /\ \A d \in Range(pure.datasets) : \E p \in Range(d) :
           p.salesperson = Ana /\ \E b \in Range(p.hourly) : b.hour = 8
    /\ Len(pure.merged) = 2
    /\ pure.merged # mergeAttendanceData(<<pure.datasets[2], pure.datasets[1]>>)

\* the two lists once the reads i and then j of `reads` have both loaded
afterBothReads(i, j) ==
    LET first == filesAfterOnload(loadedAttendanceFiles, loadedSalesFiles, reads[i])
    IN  filesAfterOnload(first.attendanceFiles, first.salesFiles, reads[j])

\* the two lists once the pending files i and then j of batch k have both
\* loaded and the batch has settled
afterBothOfBatch(k, i, j) ==
    LET first == batchAfterOnload(batches[k], i)
        second == batchAfterOnload(first, IF j > i THEN j - 1 ELSE j)
    IN  [attendanceFiles |-> loadedAttendanceFiles \o second.newAttendanceFiles,
         salesFiles |-> loadedSalesFiles \o second.newSalesFiles]

\* the parse of a file in flight returns
readParses(read) ==
    IF read.type = "attendance" THEN attendanceParses[read.file.text].ok
    ELSE salesParses[read.file.text].ok

\* the parse of file f of batch b is run and returns
batchFileParses(b, f) ==
    IF sniffedAttendance[f.text]
    THEN ~someNamed(b.loadedAttendanceFiles, f.name) /\ attendanceParses2[f.text].ok
    ELSE ~someNamed(b.loadedSalesFiles, f.name) /\ salesParses2[f.text].ok

\* the consolidated view of the two lists `files` under the current filter
viewOf(files) ==
    IF revision = "slots"
    THEN consolidatedDataOf(files.attendanceFiles, files.salesFiles, filterDateRange)
    ELSE consolidatedDataOf2(files.attendanceFiles, files.salesFiles)

\* the two completion orders of a pair of reads leave both files in the
\* lists and the same set of consolidated records
SameWhicheverFirst(ij, ji) ==
    /\ Len(ij.attendanceFiles) + Len(ij.salesFiles)
         = Len(loadedAttendanceFiles) + Len(loadedSalesFiles) + 2
    /\ Len(ji.attendanceFiles) + Len(ji.salesFiles)
         = Len(loadedAttendanceFiles) + Len(loadedSalesFiles) + 2
    /\ Range(viewOf(ij)) = Range(viewOf(ji))

\* C4: when two reads are in flight - two readers of the two slots, or two
\* files of one batch - and both files parse, both files are in the lists
\* once the two reads have completed, and the set of consolidated records
\* is the same whichever of the two completes first.
C4_CompletionOrderIrrelevant ==
    /\ \A i, j \in 1..Len(reads) :
           (i # j /\ readParses(reads[i]) /\ readParses(reads[j]))
               => SameWhicheverFirst(afterBothReads(i, j), afterBothReads(j, i))
    /\ \A k \in 1..Len(batches) : \A i, j \in 1..Len(batches[k].pending) :
           (i # j /\ batchFileParses(batches[k], batches[k].pending[i])
                  /\ batchFileParses(batches[k], batches[k].pending[j]))
               => SameWhicheverFirst(afterBothOfBatch(k, i, j), afterBothOfBatch(k, j, i))

\* the list of the slot `type`
slotFiles(type) ==
    IF type = "attendance" THEN loadedAttendanceFiles ELSE loadedSalesFiles

\* C5: in sales-analyzer.tsx, uploading to a slot a file whose name a file
\* of that slot's list already has shows the duplicate-file toast, starts no
\* read and leaves both lists unchanged; an upload whose name is in no file
\* of that slot's list starts its read and shows no duplicate-file toast,
\* whether or not the other slot's list has a file of that name.
C5_DuplicateNameRejected ==
    [][\A file \in Files, type \in {"attendance", "sales"} :
           handleFileUpload(file, type) =>
               IF someNamed(slotFiles(type), file.name)
               THEN /\ toasts' = <<Toast("Arquivo Duplicado", file.name)>>
                    /\ reads' = reads
                    /\ loadedAttendanceFiles' = loadedAttendanceFiles
                    /\ loadedSalesFiles' = loadedSalesFiles
               ELSE /\ reads' = Append(reads, [file |-> file, type |-> type])
                    /\ \A t \in Range(toasts') : t.title # "Arquivo Duplicado"]_vars

\* a.csv is loaded in both slots (the second was not refused because of the
\* first), and a third upload of a.csv has just been refused
C5_Witness ==
    /\ revision = "slots"
    /\ someNamed(loadedAttendanceFiles, "a.csv")
    /\ someNamed(loadedSalesFiles, "a.csv")
    /\ toasts = <<Toast("Arquivo Duplicado", "a.csv")>>
    /\ reads = <<>>

\* `long` starts with `short`
IsPrefix(short, long) ==
    Len(short) <= Len(long) /\ SubSeq(long, 1, Len(short)) = short

\* the files (name and content) of a list of loaded files
loadedOf(files) == {[name |-> f.name, text |-> f.content] : f \in Range(files)}

\* C6: when the parse of a file that has been read throws, the file is
\* appended to no list and both lists stay as they were; when the last
\* reader of a batch settles, the files loaded before are all still there,
\* no file of the batch whose parse threw is appended, and - when no read of
\* the batch failed - one file is appended for each file of the batch whose
\* parse returned.
C6_FailedParseLeavesLists ==
    [][/\ \A i \in 1..Len(reads) :
              (readerOnload(i) /\ ~readParses(reads[i])) =>
                  /\ loadedAttendanceFiles' = loadedAttendanceFiles
                  /\ loadedSalesFiles' = loadedSalesFiles
       /\ \A k \in 1..Len(batches) : \A i \in 1..Len(batches[k].pending) :
              ((readerOnload2(k, i) \/ readerOnerror2(k, i))
                 /\ Len(batches[k].pending) = 1) =>
                  LET b == batches[k]
                      parsed == {n \in 1..Len(b.files) : batchFileParses(b, b.files[n])}
                      added == SubSeq(loadedAttendanceFiles', Len(loadedAttendanceFiles) + 1,
                                      Len(loadedAttendanceFiles'))
                                 \o SubSeq(loadedSalesFiles', Len(loadedSalesFiles) + 1,
                                           Len(loadedSalesFiles'))
                  IN  /\ IsPrefix(loadedAttendanceFiles, loadedAttendanceFiles')
                      /\ IsPrefix(loadedSalesFiles, loadedSalesFiles')
                      /\ loadedOf(added) \subseteq {b.files[n] : n \in parsed}
                      /\ ("readError" \notin Range(b.errors) /\ readerOnload2(k, i)) =>
                             /\ Len(added) = Cardinality(parsed)
                             /\ loadedOf(added) = {b.files[n] : n \in parsed}]_vars

\* a file is loaded and the parse of the next file has just thrown
C6_Witness ==
    /\ revision = "slots"
    /\ Len(loadedAttendanceFiles) + Len(loadedSalesFiles) = 1
    /\ Len(toasts) = 1
    /\ toasts[1].title = "Falha no Upload"

\* the names of a list of records
NameSet(records) == {r.salesperson : r \in Range(records)}

\* C7: with no date filter, the consolidated view has exactly one record
\* for each name of the merged attendance data or of the merged sales data,
\* and no other record.
C7_OuterJoinOfNames ==
    filterDateRange = NoFilter =>
        /\ NameSet(consolidatedData)
             = NameSet(mergeAttendanceData(parsedDataOf(loadedAttendanceFiles)))
                 \cup NameSet(mergeSalesData(parsedDataOf(loadedSalesFiles)))
        /\ \A i, j \in 1..Len(consolidatedData) :
               consolidatedData[i].salesperson = consolidatedData[j].salesperson => i = j

\* no filter; Ana is in both sources, Dan only in the attendance and Carol
\* only in the sales
C7_Witness ==
    /\ filterDateRange = NoFilter
    /\ NameSet(mergeAttendanceData(parsedDataOf(loadedAttendanceFiles)))
         = {<<"A", "n", "a">>, <<"D", "a", "n">>}
    /\ NameSet(mergeSalesData(parsedDataOf(loadedSalesFiles)))
         = {<<"A", "n", "a">>, <<"C", "a", "r", "o", "l">>}
    /\ Len(consolidatedData) = 3

\* the names with attendance in the files the filter selects, and the names
\* with sales
attendanceNames ==
    NameSet(flatten(parsedDataOf(
        attendanceFilesToProcess(loadedAttendanceFiles, filterDateRange))))

salesNames == NameSet(flatten(parsedDataOf(loadedSalesFiles)))

\* C8: a consolidated record of a name with attendance and no sales record
\* has salesCount, totalRevenue, averageTicket, itemsPerSale and
\* conversionRate 0; a consolidated record of a name with sales and no
\* attendance has an empty hourly list and totalAttendances, totalPotentials
\* and conversionRate 0.
C8_MissingSideIsZero ==
    \A rec \in Range(consolidatedData) :
        /\ (rec.salesperson \in attendanceNames /\ rec.salesperson \notin salesNames) =>
               /\ rec.salesCount = 0
               /\ rec.totalRevenue = Zero
               /\ rec.averageTicket = Zero
               /\ rec.itemsPerSale = Zero
               /\ rec.conversionRate = Zero
        /\ (rec.salesperson \in salesNames /\ rec.salesperson \notin attendanceNames) =>
               /\ rec.hourly = <<>>
               /\ rec.totalAttendances = 0
               /\ rec.totalPotentials = 0
               /\ rec.conversionRate = Zero

\* Dan has 10 attendances and no sales, Carol has 10 sales and no attendance
C8_Witness ==
    /\ \E rec \in Range(consolidatedData) :
           /\ rec.salesperson = <<"D", "a", "n">>
           /\ rec.totalAttendances = 10
           /\ rec.salesperson \notin salesNames
    /\ \E rec \in Range(consolidatedData) :
           /\ rec.salesperson = <<"C", "a", "r", "o", "l">>
           /\ rec.salesCount = 10
           /\ rec.salesperson \notin attendanceNames

\* C9: every consolidated record has conversionRate >= 0, and
\* conversionRate = 0 when its totalAttendances is 0.
C9_ConversionRateNotNegative ==
    \A rec \in Range(consolidatedData) :
        /\ ~Less(rec.conversionRate, Zero)
        /\ rec.totalAttendances = 0 => rec.conversionRate = Zero

\* the calendar day of an instant
dayOf(date) == date \div HoursPerDay

\* the filter's days reach from `from` to `to`, or to `from` with no `to`
lastDayOf(filter) == dayOf(IF filter.to # NoDate THEN filter.to ELSE filter.from)

\* C10: with no filter every loaded attendance file is selected for the
\* merge; with a filter a loaded attendance file is selected exactly when
\* its start day is one of the filter's days, or its end day is one of the
\* filter's days, or the filter's days all lie within the file's range.
C10_FilterSelectsOverlappingFiles ==
    LET selected == Range(attendanceFilesToProcess(loadedAttendanceFiles, filterDateRange))
    IN  \A file \in Range(loadedAttendanceFiles) :
            IF filterDateRange.from = NoDate THEN file \in selected
            ELSE LET first == dayOf(filterDateRange.from)
                     last == lastDayOf(filterDateRange)
                     start == dayOf(file.dateRange.start)
                     end == dayOf(file.dateRange.end)
                 IN  file \in selected
                       <=> \/ (first <= start /\ start <= last)
                           \/ (first <= end /\ end <= last)
                           \/ (start <= first /\ last <= end)

\* the file of 2024/01/01 - 2024/01/31 is selected by the filter of
\* 2024/01/10 to 2024/01/15, which holds neither of its ends
C10_Witness ==
    /\ filterDateRange = [from |-> DateOf(2024, 1, 10), to |-> DateOf(2024, 1, 15)]
    /\ \E file \in Range(attendanceFilesToProcess(loadedAttendanceFiles, filterDateRange)) :
           /\ file.dateRange.start = startOfDay(DateOf(2024, 1, 1))
           /\ file.dateRange.end = endOfDay(DateOf(2024, 1, 31))

\* C11: while a date filter is active, every record of the consolidated
\* view belongs to a salesperson who has a record in at least one loaded
\* attendance file that the filter selects; with a filter active and no
\* attendance file selected the view is empty.
C11_FilteredViewOnlyActivePeople ==
    (revision = "slots" /\ filterDateRange.from # NoDate) =>
        /\ \A rec \in Range(consolidatedData) :
               \E file \in Range(loadedAttendanceFiles) :
                   /\ fileInFilter(file, filterDateRange)
                   /\ rec.salesperson \in NameSet(file.parsedData)
        /\ (\A file \in Range(loadedAttendanceFiles) : ~fileInFilter(file, filterDateRange))
               => consolidatedData = <<>>

\* a filter is active, Carol has sales and no attendance in the selected
\* files, and the view holds the people of the selected attendance only
C11_Witness ==
    /\ revision = "slots"
    /\ filterDateRange.from # NoDate
    /\ <<"C", "a", "r", "o", "l">> \in salesNames \ attendanceNames
    /\ consolidatedData # <<>>
    /\ NameSet(consolidatedData) = attendanceNames

\* C12: a range returned by parseDateRangeFromString, by its regex path or
\* by its split path, has start <= end, also when the text holds the later
\* date first; so the range of every parsed and of every loaded attendance
\* file has start <= end.
C12_RangeStartNotAfterEnd ==
    /\ (pure.done /\ pure.range # Null) => pure.range.start <= pure.range.end
    /\ \A t \in Texts :
           attendanceParses[t].ok =>
               attendanceParses[t].dateRange.start <= attendanceParses[t].dateRange.end
    /\ \A file \in Range(loadedAttendanceFiles) :
           file.dateRange.start <= file.dateRange.end

\* `31/01/2024 - 12/01/2024`, the later date first, gives 12 to 31 January
C12_Witness ==
    /\ pure.done
    /\ pure.rangeStr = <<"3", "1", "/", "0", "1", "/", "2", "0", "2", "4", " ", "-", " ",
                         "1", "2", "/", "0", "1", "/", "2", "0", "2", "4">>
    /\ pure.range = [start |-> startOfDay(DateOf(2024, 1, 12)),
                     end |-> endOfDay(DateOf(2024, 1, 31))]

\* C13: cleanSalespersonName is idempotent: cleaning a cleaned label gives
\* the cleaned label, also for a label with two code prefixes or with two
\* trailing parenthetical groups.
C13_CleanIsIdempotent ==
    pure.done => pure.twice = pure.once

\* the input records of mergeSalesData with a name, in loop order
SalesInputOf(name) ==
    LET Test(sale) == sale.salesperson = name
    IN  SelectSeq(flatten(pure.datasets), Test)

RECURSIVE SumSalesCount(_)
SumSalesCount(sales) ==
    IF Len(sales) = 0 THEN 0 ELSE sales[1].salesCount + SumSalesCount(Tail(sales))

RECURSIVE SumTotalRevenue(_)
SumTotalRevenue(sales) ==
    IF Len(sales) = 0 THEN Zero
    ELSE Add(sales[1].totalRevenue, SumTotalRevenue(Tail(sales)))

\* mergeSalesData returns one record for each name of its input, with the
\* sums of salesCount and of totalRevenue over the input records of the name
MergedSalesAreSums ==
    /\ NameSet(pure.merged) = NameSet(flatten(pure.datasets))
    /\ \A i, j \in 1..Len(pure.merged) :
           pure.merged[i].salesperson = pure.merged[j].salesperson => i = j
    /\ \A rec \in Range(pure.merged) :
           /\ rec.salesCount = SumSalesCount(SalesInputOf(rec.salesperson))
           /\ rec.totalRevenue = SumTotalRevenue(SalesInputOf(rec.salesperson))

\* C14: mergeSalesData returns for each name one record whose salesCount
\* and totalRevenue are the sums over the input records of the name, and
\* whose averageTicket is its totalRevenue / salesCount, or 0 when its
\* salesCount is 0.
C14_MergedSalesSumsAndAverage ==
    pure.done =>
        /\ MergedSalesAreSums
        /\ \A rec \in Range(pure.merged) :
               rec.averageTicket = IF rec.salesCount = 0 THEN Zero
                                   ELSE Div(rec.totalRevenue, Num(rec.salesCount))

\* C15: after mergeSalesData the itemsPerSale of a name is the
\* itemsPerSale of one of the input records of that name (so, with one
\* record of the name, the value of that record).
C15_ItemsPerSaleFromSource ==
    pure.done =>
        \A rec \in Range(pure.merged) :
            \E sale \in Range(SalesInputOf(rec.salesperson)) :
                rec.itemsPerSale = sale.itemsPerSale

\* averageTicket = totalRevenue / salesCount, and 0 when salesCount = 0
TicketIsRevenuePerSale(rec) ==
    rec.averageTicket = IF rec.salesCount = 0 THEN Zero
                        ELSE Div(rec.totalRevenue, Num(rec.salesCount))

\* C16: every SalespersonSales record, of a parsed sales file or returned
\* by mergeSalesData, has averageTicket = totalRevenue / salesCount, and
\* averageTicket = 0 when its salesCount is 0.
C16_AverageTicketIsRevenuePerSale ==
    /\ \A file \in Range(loadedSalesFiles) :
           \A rec \in Range(file.parsedData) : TicketIsRevenuePerSale(rec)
    /\ \A rec \in Range(mergeSalesData(parsedDataOf(loadedSalesFiles))) :
           TicketIsRevenuePerSale(rec)

\* C17: immediately after resetData, from any reachable state, both lists
\* of loaded files are empty, the date filter is unset, the summary is
\* absent and the consolidated view is empty.
C17_ResetClearsEverything ==
    [][resetData =>
          /\ loadedAttendanceFiles' = <<>>
          /\ loadedSalesFiles' = <<>>
          /\ filterDateRange' = NoFilter
          /\ aiSummary' = Null
          /\ consolidatedData' = <<>>]_vars

\* resetData has just run while a summary of the files it removed was
\* still being requested
C17_Witness ==
    /\ revision = "slots"
    /\ toasts = <<Toast("Dados Resetados", "")>>
    /\ loadedAttendanceFiles = <<>>
    /\ loadedSalesFiles = <<>>
    /\ Len(requests) > 0

\* C18: when a summary request fails or returns no usable output, the two
\* lists of loaded files, the date filter and so the consolidated records
\* (those of the lists and the filter after the failure are those before
\* it) are unchanged, as are the reads in progress; the summary is cleared
\* and the summary-loading flag is dropped.
C18_FailedSummaryKeepsData ==
    [][\A i \in 1..MaxRacing :
           summaryRejected(i) =>
               /\ UNCHANGED <<loadedAttendanceFiles, loadedSalesFiles, filterDateRange,
                              isLoading, reads, batches>>
               /\ \E attendanceFiles \in {loadedAttendanceFiles'},
                     salesFiles \in {loadedSalesFiles'},
                     filter \in {filterDateRange'} :
                      consolidatedData =
                          IF revision = "slots"
                          THEN consolidatedDataOf(attendanceFiles, salesFiles, filter)
                          ELSE consolidatedDataOf2(attendanceFiles, salesFiles)
               /\ aiSummary' = Null
               /\ isAiLoading' = FALSE]_vars

\* a request has just failed after an earlier one had been made, with both
\* kinds of file loaded and a non-empty consolidated view
C18_Witness ==
    /\ toasts = <<Toast("Falha na Análise de IA", "")>>
    /\ requested = 2
    /\ requests = <<>>
    /\ aiSummary = Null
    /\ ~isAiLoading
    /\ Len(loadedAttendanceFiles) > 0
    /\ Len(loadedSalesFiles) > 0
    /\ Len(consolidatedData) > 0

\* the first cell of the metric-header line, trimmed and in lower case
metricHeaderCell(lines) == toLowerCase(trim(split(lines[3], ";")[1]))

\* the rows of an attendance file that survive the row filters: the rows
\* after the metric header whose first cell is neither blank nor `total`
survivingRows(lines) ==
    {i \in 4..Len(lines) :
        LET cell == trim(split(lines[i], ";")[1])
        IN  Len(cell) > 0 /\ toLowerCase(cell) # STotal}

\* the four cases in which parseAttendanceCsv is to fail
AttendanceMustFail(csvText) ==
    LET lines == nonBlankLines(csvText)
    IN  \/ Len(lines) < 4
        \/ parseDateRangeFromString(lines[1]) = Null
        \/ ~startsWith(metricHeaderCell(lines), SVendedor)
        \/ survivingRows(lines) = {}

\* C19: parseAttendanceCsv fails with an error, and returns no data, when
\* the text has fewer than 4 non-blank lines, when no date range can be
\* extracted from its first line, when the first cell of the metric-header
\* line does not start with `vendedor` (in any case of letters), and when
\* no salesperson row survives the row filters.
C19_AttendanceParserFails ==
    (pure.done /\ AttendanceMustFail(pure.csvText)) =>
        /\ ~pure.attendance.ok
        /\ DOMAIN pure.attendance = {"ok", "error"}

\* a complete file with a date range and a `vendedor` header whose only
\* rows are a Total row and a row with no name has been refused
C19_Witness ==
    /\ pure.done
    /\ LET lines == nonBlankLines(pure.csvText)
       IN  /\ Len(lines) = 5
           /\ parseDateRangeFromString(lines[1]) # Null
           /\ startsWith(metricHeaderCell(lines), SVendedor)
           /\ survivingRows(lines) = {}
    /\ pure.attendance = Throw("noValidRows")

\* C20: a file uploaded into the wrong slot is refused with the error of
\* the wrong slot, not with a generic format error: in the attendance slot
\* whenever no date range is found and the first line has the words of a
\* sales file, in the sales slot whenever the first line has a date and not
\* the word `vendedor`; also for a file of fewer than 4 non-blank lines in
\* the attendance slot.
C20_WrongSlotError ==
    pure.done =>
        LET lines == nonBlankLines(pure.csvText)
            header == toLowerCase(lines[1])
        IN  Len(lines) > 0 =>
                /\ (/\ parseDateRangeFromString(lines[1]) = Null
                    /\ includes(header, SVendedor)
                    /\ (includes(header, STotalVendas) \/ includes(header, SVendas)))
                       => pure.attendance = Throw("wrongSlot")
                /\ (hasDate(header) /\ ~includes(header, SVendedor))
                       => pure.sales = Throw("wrongSlot")

\* the cleaned labels of the lines `rows` of `lines`, from line i on, in
\* the order of the lines
RECURSIVE cleanedLabels(_, _, _)
cleanedLabels(lines, rows, i) ==
    IF i > Len(lines) THEN <<>>
    ELSE (IF i \in rows THEN <<cleanSalespersonName(trim(split(lines[i], ";")[1]))>>
          ELSE <<>>) \o cleanedLabels(lines, rows, i + 1)

\* the rows of a sales file that are valid: at least 11 cells and a first
\* cell that is neither blank nor `total`
validSalesRows(lines) ==
    {i \in 2..Len(lines) :
        LET values == split(lines[i], ";")
            cell == trim(values[1])
        IN  Len(values) >= 11 /\ Len(cell) > 0 /\ toLowerCase(cell) # STotal}

\* C21: a defect of a row (an unparseable or empty numeric cell of an
\* attendance row, a sales row of fewer than 11 columns, a blank or `total`
\* label) never makes the parse of the whole file fail while another row is
\* valid: a file whose first lines are accepted is parsed exactly when it
\* has a valid row, and the records returned are those of its valid rows,
\* one each, in the order of the file.
C21_RowDefectsAreSkipped ==
    pure.done =>
        LET lines == nonBlankLines(pure.csvText)
            firstLine == toLowerCase(lines[1])
        IN  /\ (/\ Len(lines) >= 4
                /\ parseDateRangeFromString(lines[1]) # Null
                /\ startsWith(metricHeaderCell(lines), SVendedor))
                   => IF survivingRows(lines) = {} THEN ~pure.attendance.ok
                      ELSE /\ pure.attendance.ok
                           /\ namesOf(pure.attendance.data)
                                = cleanedLabels(lines, survivingRows(lines), 4)
            /\ (Len(lines) >= 2 /\ ~(hasDate(firstLine) /\ ~includes(firstLine, SVendedor)))
                   => IF validSalesRows(lines) = {} THEN ~pure.sales.ok
                      ELSE /\ pure.sales.ok
                           /\ namesOf(pure.sales.data)
                                = cleanedLabels(lines, validSalesRows(lines), 2)

\* an attendance file of two rows, a Total row first and then a row with
\* an unparseable and an empty cell, has been parsed into the one record
C21_Witness ==
    /\ pure.done
    /\ LET lines == nonBlankLines(pure.csvText)
       IN  /\ Len(lines) = 5
           /\ survivingRows(lines) = {5}
           /\ parseInt(split(lines[5], ";")[2]) = NaN
    /\ pure.attendance.ok
    /\ Len(pure.attendance.data) = 1

\* no record of a parsed file has an empty salesperson name
NoEmptyName(parsed) ==
    parsed.ok => \A i \in 1..Len(parsed.data) : Len(parsed.data[i].salesperson) > 0

\* C22: no record returned by parseAttendanceCsv or parseSalesCsv has an
\* empty salesperson name: a row whose label normalizes to the empty
\* string is skipped.
C22_NoEmptySalespersonName ==
    pure.done => NoEmptyName(pure.attendance) /\ NoEmptyName(pure.sales)

\* C23: the list returned by parseAttendanceCsv for one file never holds
\* two records of the same normalized name, also when two rows of the file
\* normalize to the same name.
C23_ParsedNamesAreUnique ==
    (pure.done /\ pure.attendance.ok) =>
        \A i, j \in 1..Len(pure.attendance.data) :
            pure.attendance.data[i].salesperson = pure.attendance.data[j].salesperson
                => i = j

\* the nearest non-blank label of the hour line at or to the left of cell
\* c (cell 1 is column 0), empty when there is none
carriedLabel(hourCells, c) ==
    IF \E k \in 1..c : Len(trim(hourCells[k])) > 0
    THEN LET k == CHOOSE k \in 1..c :
                      /\ Len(trim(hourCells[k])) > 0
                      /\ \A l \in (k + 1)..c : Len(trim(hourCells[l])) = 0
         IN  trim(hourCells[k])
    ELSE <<>>

\* what cell c of the row `values` adds to the `metric` ("at." or "pot.")
\* of the hours `hours`, by the rule of C24
cellAmount(lines, values, c, metric, hours) ==
    LET hourCells == split(lines[2], ";")
        metricCells == split(lines[3], ";")
        label == carriedLabel(hourCells, c)
        cell == trim(values[c])
    IN  IF /\ c <= Len(hourCells)
           /\ ~includes(toLowerCase(label), STotal)
           /\ hourOf(label) \in hours
           /\ c <= Len(metricCells)
           /\ toLowerCase(trim(metricCells[c])) = metric
           /\ Len(cell) > 0
           /\ parseInt(cell) # NaN
        THEN parseInt(cell).n
        ELSE 0

\* the sum of cellAmount over the cells c.. of the row
RECURSIVE cellSum(_, _, _, _, _)
cellSum(lines, values, c, metric, hours) ==
    IF c > Len(values) THEN 0
    ELSE cellAmount(lines, values, c, metric, hours)
           + cellSum(lines, values, c + 1, metric, hours)

\* the cells of the row that the rule of C24 gives to hour h
cellsOfHour(lines, values, h) ==
    {c \in 2..Len(values) :
        LET hourCells == split(lines[2], ";")
            metricCells == split(lines[3], ";")
            label == carriedLabel(hourCells, c)
            cell == trim(values[c])
        IN  /\ c <= Len(hourCells)
            /\ ~includes(toLowerCase(label), STotal)
            /\ hourOf(label) = h
            /\ c <= Len(metricCells)
            /\ toLowerCase(trim(metricCells[c])) \in {SAt, SPot}
            /\ Len(cell) > 0
            /\ parseInt(cell) # NaN}

\* the hours a label can name
HourNames == 0..99

\* the line of the j-th row that survives the row filters
survivingRow(lines, j) ==
    CHOOSE i \in survivingRows(lines) :
        Cardinality({k \in survivingRows(lines) : k <= i}) = j

\* the record `rec` is what the rule of C24 makes of the row `values`
RecordFollowsColumns(lines, values, rec) ==
    /\ \A h \in HourNames :
           IF cellsOfHour(lines, values, h) = {}
           THEN \A b \in 1..Len(rec.hourly) : rec.hourly[b].hour # h
           ELSE \E b \in 1..Len(rec.hourly) :
                    /\ rec.hourly[b].hour = h
                    /\ rec.hourly[b].attendances = cellSum(lines, values, 2, SAt, {h})
                    /\ rec.hourly[b].potentials = cellSum(lines, values, 2, SPot, {h})
    /\ \A b \in 1..Len(rec.hourly) : rec.hourly[b].hour \in HourNames
    /\ rec.totalAttendances = cellSum(lines, values, 2, SAt, HourNames)
    /\ rec.totalPotentials = cellSum(lines, values, 2, SPot, HourNames)

\* C24: in parseAttendanceCsv a data cell in column i >= 1 is added to the
\* bucket of the hour named by the nearest non-blank hour label at or to
\* the left of column i, as attendances when the metric header of the
\* column is `at.` and as potentials when it is `pot.`; a cell whose carried
\* label contains `total` or names no hour, whose metric header is neither,
\* or whose column is beyond the header columns, adds to no bucket and to
\* no total.
C24_CellsFollowCarriedHourLabel ==
    (pure.done /\ pure.attendance.ok) =>
        LET lines == nonBlankLines(pure.csvText)
        IN  \A j \in 1..Len(pure.attendance.data) :
                RecordFollowsColumns(lines, split(lines[survivingRow(lines, j)], ";"),
                                     pure.attendance.data[j])

\* under the hour line `Hora;8h;;Total;;10h` and five metric headers,
\* the row of eight cells of Eve gave one bucket: 1 and 2 at 8h (the second
\* under the carried label), nothing from the Total group and from the
\* columns beyond the metric headers
C24_Witness ==
    /\ pure.done
    /\ pure.attendance.ok
    /\ LET lines == nonBlankLines(pure.csvText)
       IN  /\ Len(split(lines[2], ";")) = 6
           /\ carriedLabel(split(lines[2], ";"), 3) = <<"8", "h">>
           /\ Len(split(lines[3], ";")) = 5
           /\ Len(split(lines[4], ";")) = 9
    /\ pure.attendance.data[1].hourly = <<[hour |-> 8, attendances |-> 1, potentials |-> 2]>>
    /\ pure.attendance.data[1].totalAttendances = 1

\* no two files of the list have the same name
NamesAreUnique(files) ==
    \A i, j \in 1..Len(files) : files[i].name = files[j].name => i = j

\* C25: in every reachable state, under any interleaving of upload starts,
\* read completions and resets, no two files of the same list have the
\* same name.
C25_NoDuplicateFileNames ==
    NamesAreUnique(loadedAttendanceFiles) /\ NamesAreUnique(loadedSalesFiles)

\* the input a summary request made in the current state would carry
currentSummaryInput ==
    IF revision = "slots"
    THEN summaryInputOf(loadedAttendanceFiles, loadedSalesFiles, filterDateRange)
    ELSE summaryInputOf2(loadedAttendanceFiles, loadedSalesFiles)

\* C26: a response of summarizeSalesData sets the summary only when the
\* inputs of its request are still the current ones: after resetData, or
\* after a later change of the loaded files or of the filter, the response
\* of an earlier request does not set the summary.
C26_StaleResponseNeverSetsSummary ==
    [][\A i \in 1..MaxRacing :
           (summaryResolved(i) /\ requests[i] # currentSummaryInput)
               => aiSummary' = aiSummary]_vars

\* C27: isAiLoading is true in every state in which a call of
\* summarizeSalesData is still in flight, also when two requests overlap
\* and the first has settled.
C27_LoadingWhileRequestInFlight ==
    Len(requests) > 0 => isAiLoading

\* a FileReader started by an upload has not settled yet
readInFlight == Len(reads) > 0 \/ Len(batches) > 0

\* the onload of part_002 will drop the file as already loaded
duplicateOfBatch(file) ==
    IF sniffedAttendance[file.text] THEN someNamed(loadedAttendanceFiles, file.name)
    ELSE someNamed(loadedSalesFiles, file.name)

\* every read that is started settles and leaves isLoading false
ReadsLeaveNotLoading == [](readInFlight => <>(~readInFlight /\ ~isLoading))

\* an upload of sales-analyzer.tsx refused as a duplicate starts no read and
\* leaves isLoading false
DuplicateOfSlotNeverLoading ==
    [][\A file \in Files, type \in {"attendance", "sales"} :
           (handleFileUpload(file, type) /\ someNamed(slotFiles(type), file.name))
               => (~isLoading' /\ reads' = reads)]_vars

\* C28 as stated: with readers that settle, every upload that has started a
\* read is followed by a state with no read in flight and isLoading false,
\* and an upload of a duplicate, in either revision, leaves isLoading false.
C28_DuplicateNeverLoading ==
    /\ ReadsLeaveNotLoading
    /\ DuplicateOfSlotNeverLoading
    /\ [][\A files \in AllFileLists :
             (handleFileUpload2(files) /\ \A i \in 1..Len(files) : duplicateOfBatch(files[i]))
                 => ~isLoading']_vars

\* C28, amended: with readers that settle, every upload that has started a
\* read (of one file, or of each file of a batch) is followed by a state
\* with no read in flight and isLoading false, whether the parse returns,
\* the parse throws or the read fails; an upload of sales-analyzer.tsx
\* refused as a duplicate leaves isLoading false, and a batch of part_002
\* that holds only duplicates sets isLoading until its reads have settled.
C28_UploadLeavesNotLoading ==
    /\ ReadsLeaveNotLoading
    /\ DuplicateOfSlotNeverLoading
    /\ [][\A files \in AllFileLists :
             (handleFileUpload2(files) /\ \A i \in 1..Len(files) : duplicateOfBatch(files[i]))
                 => (isLoading' /\ Len(batches') = 1)]_vars

\* a read has failed and left the component not loading
C28_Witness ==
    /\ toasts = <<Toast("Erro de Leitura de Arquivo", "")>>
    /\ ~readInFlight
    /\ ~isLoading

-----------------------------------------------------------------------------
(* The derived view on a store of objects: the loaded files, their records *)
(* and buckets are objects that the mergers read through references, and   *)
(* every assignment of the mergers is a write to one object.               *)

\* a reference is a position in `heap`; a new object gets the next one
alloc(heap, object) == Append(heap, object)

\* the records of a parsed attendance dataset as objects: per record its
\* buckets, the array `hourly` and the record
RECURSIVE storePersons(_, _, _)
storePersons(heap, refs, persons) ==
    IF Len(persons) = 0 THEN [heap |-> heap, refs |-> refs]
    ELSE Let(alloc(heap \o persons[1].hourly,
                   [items |-> [i \in 1..Len(persons[1].hourly) |-> Len(heap) + i]]),
             LAMBDA withArray :
         Let(alloc(withArray, [persons[1] EXCEPT !.hourly = Len(withArray)]),
             LAMBDA withPerson :
         Let(Append(refs, Len(withPerson)), LAMBDA stored :
             storePersons(withPerson, stored, Tail(persons)))))

\* the loaded attendance files as objects
RECURSIVE storeAttendanceFiles(_, _, _)
storeAttendanceFiles(heap, refs, files) ==
    IF Len(files) = 0 THEN [heap |-> heap, refs |-> refs]
    ELSE Let(storePersons(heap, <<>>, files[1].parsedData), LAMBDA records :
         Let(alloc(records.heap, [items |-> records.refs]), LAMBDA withArray :
         Let(alloc(withArray, [files[1] EXCEPT !.parsedData = Len(withArray)]),
             LAMBDA withFile :
         Let(Append(refs, Len(withFile)), LAMBDA stored :
             storeAttendanceFiles(withFile, stored, Tail(files))))))

\* the loaded sales files as objects
RECURSIVE storeSalesFiles(_, _, _)
storeSalesFiles(heap, refs, files) ==
    IF Len(files) = 0 THEN [heap |-> heap, refs |-> refs]
    ELSE Let(alloc(heap \o files[1].parsedData,
                   [items |-> [i \in 1..Len(files[1].parsedData) |-> Len(heap) + i]]),
             LAMBDA withArray :
         Let(alloc(withArray, [files[1] EXCEPT !.parsedData = Len(withArray)]),
             LAMBDA withFile :
         Let(Append(refs, Len(withFile)), LAMBDA stored :
             storeSalesFiles(withFile, stored, Tail(files)))))

\* the objects of the array `array`
itemsOf(heap, array) == [i \in 1..Len(heap[array].items) |-> heap[heap[array].items[i]]]

\* an attendance record with its buckets, read through its reference
personAt(heap, person) == [heap[person] EXCEPT !.hourly = itemsOf(heap, heap[person].hourly)]

\* a loaded attendance file with its records and their buckets
attendanceFileAt(heap, file) ==
    [heap[file] EXCEPT !.parsedData =
        [i \in 1..Len(heap[heap[file].parsedData].items) |->
            personAt(heap, heap[heap[file].parsedData].items[i])]]

\* a loaded sales file with its records
salesFileAt(heap, file) == [heap[file] EXCEPT !.parsedData = itemsOf(heap, heap[file].parsedData)]

\* Map.get of a Map kept as its entries in insertion order: 0 for undefined
mapGet(map, key) ==
    IF \E i \in 1..Len(map) : map[i].key = key
    THEN map[CHOOSE i \in 1..Len(map) : map[i].key = key].value
    ELSE 0

\* Map.set
mapSet(map, key, value) ==
    IF \E i \in 1..Len(map) : map[i].key = key
    THEN [i \in 1..Len(map) |-> IF map[i].key = key THEN [key |-> key, value |-> value]
                               ELSE map[i]]
    ELSE Append(map, [key |-> key, value |-> value])

\* Array.from(map.values())
mapValues(map) == [i \in 1..Len(map) |-> map[i].value]

\* new Map(existingPerson.hourly.map(h => [h.hour, {...h}])): one new object
\* per bucket
RECURSIVE copiedHours(_, _, _)
copiedHours(heap, map, hours) ==
    IF Len(hours) = 0 THEN [heap |-> heap, map |-> map]
    ELSE Let(alloc(heap, heap[hours[1]]), LAMBDA copy :
         Let(mapSet(map, heap[hours[1]].hour, Len(copy)), LAMBDA copies :
             copiedHours(copy, copies, Tail(hours))))

\* existingHourOf taking the bucket of the dataset for an hour the map lacks
existingHourOrNewHour(heap, hourlyMap, newHour) ==
    IF mapGet(hourlyMap, heap[newHour].hour) # 0
    THEN [heap |-> heap, ref |-> mapGet(hourlyMap, heap[newHour].hour)]
    ELSE [heap |-> heap, ref |-> newHour]

\* hourlyMap.get(newHour.hour) || { hour: newHour.hour, attendances: 0,
\* potentials: 0 }
existingHourOf(heap, hourlyMap, newHour) ==
    IF mapGet(hourlyMap, heap[newHour].hour) # 0
    THEN [heap |-> heap, ref |-> mapGet(hourlyMap, heap[newHour].hour)]
    ELSE [heap |-> alloc(heap, Bucket(heap[newHour].hour, 0, 0)), ref |-> Len(heap) + 1]

\* for (const newHour of newPerson.hourly): the two += are writes to the
\* object existingHour
RECURSIVE addHoursInPlace(_, _, _)
addHoursInPlace(heap, hourlyMap, newHours) ==
    IF Len(newHours) = 0 THEN [heap |-> heap, map |-> hourlyMap]
    ELSE Let(existingHourOf(heap, hourlyMap, newHours[1]), LAMBDA existingHour :
         Let([existingHour.heap EXCEPT ![existingHour.ref].attendances =
                 @ + existingHour.heap[newHours[1]].attendances], LAMBDA first :
         Let([first EXCEPT ![existingHour.ref].potentials =
                 @ + first[newHours[1]].potentials], LAMBDA second :
         Let(mapSet(hourlyMap, heap[newHours[1]].hour, existingHour.ref), LAMBDA map :
             addHoursInPlace(second, map, Tail(newHours))))))

\* .sort((a,b) => a.hour - b.hour) of the values of hourlyMap, whose hours
\* differ
sortByHour(heap, hours) ==
    LET rank(r) == Cardinality({i \in 1..Len(hours) : heap[hours[i]].hour < heap[r].hour}) + 1
    IN  [k \in 1..Len(hours) |-> hours[CHOOSE i \in 1..Len(hours) : rank(hours[i]) = k]]

\* the body of the inner loop of mergeAttendanceData on the objects
mergePersonInPlace(merging, newPerson) ==
    LET name == merging.heap[newPerson].salesperson
        found == mapGet(merging.mergedMap, name)
    IN  Let(IF found # 0 THEN merging.heap
            ELSE alloc(alloc(merging.heap, [items |-> <<>>]),
                       Person(name, Len(merging.heap) + 1, 0, 0)), LAMBDA created :
        Let(IF found # 0 THEN found ELSE Len(created), LAMBDA existingPerson :
        Let(copiedHours(created, <<>>, created[created[existingPerson].hourly].items),
            LAMBDA copied :
        Let(addHoursInPlace(copied.heap, copied.map,
                            copied.heap[copied.heap[newPerson].hourly].items),
            LAMBDA added :
        Let(alloc(added.heap, [items |-> sortByHour(added.heap, mapValues(added.map))]),
            LAMBDA withArray :
        Let(itemsOf(withArray, Len(withArray)), LAMBDA hourly :
            [heap |-> [withArray EXCEPT ![existingPerson] =
                          [@ EXCEPT !.hourly = Len(withArray),
                                    !.totalAttendances = sumAttendances(hourly),
                                    !.totalPotentials = sumPotentials(hourly)]],
             mergedMap |-> IF found # 0 THEN merging.mergedMap
                           ELSE mapSet(merging.mergedMap, name, existingPerson)]))))))

\* the records of the arrays `datasets`, in loop order
recordsOf(heap, datasets) == flatten([i \in 1..Len(datasets) |-> heap[datasets[i]].items])

RECURSIVE mergeAttendanceInPlace(_, _)
mergeAttendanceInPlace(merging, persons) ==
    IF Len(persons) = 0 THEN merging
    ELSE Let(mergePersonInPlace(merging, persons[1]), LAMBDA next :
             mergeAttendanceInPlace(next, Tail(persons)))

\* mergeAttendanceData(datasets) on the objects: the store it leaves and the
\* array it returns
mergeAttendanceDataAt(heap, datasets) ==
    Let(recordsOf(heap, datasets), LAMBDA persons :
    Let(mergeAttendanceInPlace([heap |-> heap, mergedMap |-> <<>>], persons), LAMBDA merged :
        [heap |-> alloc(merged.heap, [items |-> mapValues(merged.mergedMap)]),
         ref |-> Len(merged.heap) + 1]))

\* the body of the inner loop of mergeSalesData on the objects
mergeSaleInPlace(merging, newSale) ==
    LET name == merging.heap[newSale].salesperson
        found == mapGet(merging.mergedMap, name)
    IN  Let(IF found # 0 THEN merging.heap
            ELSE alloc(merging.heap, Sale(name, 0, Zero, Zero, Zero)), LAMBDA created :
        Let(IF found # 0 THEN found ELSE Len(created), LAMBDA existingSale :
        Let([created EXCEPT ![existingSale].salesCount = @ + created[newSale].salesCount],
            LAMBDA first :
        Let([first EXCEPT ![existingSale].totalRevenue =
                Add(@, first[newSale].totalRevenue)], LAMBDA second :
        Let(second[existingSale].salesCount, LAMBDA totalSales :
            [heap |-> IF totalSales > 0
                      THEN [second EXCEPT ![existingSale].averageTicket =
                               Div(second[existingSale].totalRevenue, Num(totalSales))]
                      ELSE second,
             mergedMap |-> IF found # 0 THEN merging.mergedMap
                           ELSE mapSet(merging.mergedMap, name, existingSale)])))))

RECURSIVE mergeSalesInPlace(_, _)
mergeSalesInPlace(merging, sales) ==
    IF Len(sales) = 0 THEN merging
    ELSE Let(mergeSaleInPlace(merging, sales[1]), LAMBDA next :
             mergeSalesInPlace(next, Tail(sales)))

\* mergeSalesData(datasets) on the objects
mergeSalesDataAt(heap, datasets) ==
    Let(recordsOf(heap, datasets), LAMBDA sales :
    Let(mergeSalesInPlace([heap |-> heap, mergedMap |-> <<>>], sales), LAMBDA merged :
        [heap |-> alloc(merged.heap, [items |-> mapValues(merged.mergedMap)]),
         ref |-> Len(merged.heap) + 1]))

\* list.find(r => r.salesperson === name): 0 for undefined
findNamed(heap, list, name) ==
    IF \E i \in 1..Len(list) : heap[list[i]].salesperson = name
    THEN list[CHOOSE i \in 1..Len(list) :
                  /\ heap[list[i]].salesperson = name
                  /\ \A j \in 1..(i - 1) : heap[list[j]].salesperson # name]
    ELSE 0

\* Array.from(salespeopleToShow).map(name => ({...})): one new object per
\* name; `hourly` is the array of the merged record, or a new empty array
RECURSIVE consolidatedAt(_, _, _, _, _)
consolidatedAt(heap, refs, names, mergedPerformances, mergedSales) ==
    IF Len(names) = 0 THEN [heap |-> heap, refs |-> refs]
    ELSE LET name == names[1]
             performanceData == findNamed(heap, mergedPerformances, name)
             salesData == findNamed(heap, mergedSales, name)
             withHourly == IF performanceData # 0 THEN heap
                           ELSE alloc(heap, [items |-> <<>>])
             totalAttendances == IF performanceData # 0
                                 THEN heap[performanceData].totalAttendances ELSE 0
             salesCount == IF salesData # 0 THEN heap[salesData].salesCount ELSE 0
             object ==
                 [salesperson |-> name,
                  hourly |-> IF performanceData # 0 THEN heap[performanceData].hourly
                             ELSE Len(withHourly),
                  totalAttendances |-> totalAttendances,
                  totalPotentials |-> IF performanceData # 0
                                      THEN heap[performanceData].totalPotentials ELSE 0,
                  salesCount |-> salesCount,
                  totalRevenue |-> IF salesData # 0 THEN heap[salesData].totalRevenue
                                   ELSE Zero,
                  averageTicket |-> IF salesData # 0 THEN heap[salesData].averageTicket
                                    ELSE Zero,
                  itemsPerSale |-> IF salesData # 0 THEN heap[salesData].itemsPerSale
                                   ELSE Zero,
                  conversionRate |-> IF totalAttendances > 0
                                     THEN Rat(salesCount, totalAttendances) ELSE Zero]
         IN  Let(alloc(withHourly, object), LAMBDA withObject :
             Let(Append(refs, Len(withObject)), LAMBDA stored :
                 consolidatedAt(withObject, stored, Tail(names),
                                mergedPerformances, mergedSales)))

\* the useMemo `activeData` on the objects, for the references of the two
\* lists: the store it leaves and the array consolidatedData; the arrays
\* of filter and map that nothing keeps are not stored
activeDataAt(heap, attendanceFiles, salesFiles, filter) ==
    LET Test(file) == fileInFilter(heap[file], filter)
    IN  Let(IF filter.from # NoDate THEN SelectSeq(attendanceFiles, Test)
            ELSE attendanceFiles, LAMBDA filesToProcess :
        Let(mergeSalesDataAt(heap, [i \in 1..Len(salesFiles) |->
                                       heap[salesFiles[i]].parsedData]),
            LAMBDA allMergedSales :
        IF Len(attendanceFiles) = 0 /\ Len(salesFiles) = 0
        THEN [heap |-> alloc(allMergedSales.heap, [items |-> <<>>]),
              ref |-> Len(allMergedSales.heap) + 1]
        ELSE
        Let(mergeAttendanceDataAt(allMergedSales.heap,
                [i \in 1..Len(filesToProcess) |->
                    allMergedSales.heap[filesToProcess[i]].parsedData]),
            LAMBDA merged :
        Let(merged.heap[merged.ref].items, LAMBDA mergedPerformances :
        Let([i \in 1..Len(mergedPerformances) |->
                merged.heap[mergedPerformances[i]].salesperson], LAMBDA active :
        LET Active(sale) ==
                \E i \in 1..Len(active) : active[i] = merged.heap[sale].salesperson
        IN
        Let(IF filter.from # NoDate
            THEN SelectSeq(merged.heap[allMergedSales.ref].items, Active)
            ELSE merged.heap[allMergedSales.ref].items, LAMBDA mergedSales :
        Let(distinctNames(active \o [i \in 1..Len(mergedSales) |->
                                        merged.heap[mergedSales[i]].salesperson]),
            LAMBDA salespeopleToShow :
        Let(consolidatedAt(merged.heap, <<>>, salespeopleToShow,
                           mergedPerformances, mergedSales), LAMBDA objects :
            [heap |-> alloc(objects.heap, [items |-> objects.refs]),
             ref |-> Len(objects.heap) + 1]))))))))

\* consolidatedData with the buckets of each record, read through the
\* reference of the array
consolidatedDataAt(heap, array) ==
    [i \in 1..Len(heap[array].items) |-> personAt(heap, heap[array].items[i])]

\* the derived view is recomputed at most this many times
MaxRecomputations == 2

\* the datasets of the files: one or two records of one or two people, with
\* shared hours
ViewDatasets ==
    {<<Person(Ana, <<Bucket(8, 5, 1), Bucket(9, 3, 0)>>, 8, 1)>>,
     <<Person(Ana, <<Bucket(8, 3, 2)>>, 3, 2), Person(Bob, <<Bucket(9, 4, 4)>>, 4, 4)>>,
     <<Person(Bob, <<>>, 0, 0), Person(Ana, <<Bucket(10, -2, 1), Bucket(8, 1, 0)>>, 0, 0)>>}

ViewSaleDatasets ==
    {<<Sale(Ana, 5, Rat(3, 2), Num(100), Num(20))>>,
     <<Sale(Bob, 10, Num(2), Rat(123456, 100), Rat(12345, 100)),
       Sale(Ana, -5, Num(2), Num(50), Num(10))>>}

\* the attendance lists: no file, a file of January, or a file of January
\* and a file of February
ViewAttendanceLists ==
    {<<>>}
    \cup {<<[name |-> "a.csv", content |-> <<"a">>,
             dateRange |-> [start |-> DateOf(2024, 1, 1), end |-> DateOf(2024, 1, 31)],
             parsedData |-> d]>> : d \in ViewDatasets}
    \cup {<<[name |-> "a.csv", content |-> <<"a">>,
             dateRange |-> [start |-> DateOf(2024, 1, 1), end |-> DateOf(2024, 1, 31)],
             parsedData |-> d],
            [name |-> "b.csv", content |-> <<"b">>,
             dateRange |-> [start |-> DateOf(2024, 2, 1), end |-> DateOf(2024, 2, 29)],
             parsedData |-> e]>> : d \in ViewDatasets, e \in ViewDatasets}

ViewSalesLists ==
    {<<>>}
    \cup {<<[name |-> "c.csv", content |-> <<"c">>, parsedData |-> d]>> :
             d \in ViewSaleDatasets}
    \cup {<<[name |-> "c.csv", content |-> <<"c">>, parsedData |-> d],
            [name |-> "d.csv", content |-> <<"d">>, parsedData |-> e]>> :
             d \in ViewSaleDatasets, e \in ViewSaleDatasets}

\* the component with the two lists loaded as objects and no view computed
viewOfLists(attendanceFiles, salesFiles) ==
    Let(storeAttendanceFiles(<<>>, <<>>, attendanceFiles), LAMBDA attendance :
    Let(storeSalesFiles(attendance.heap, <<>>, salesFiles), LAMBDA sales :
        [loadedAttendanceFiles |-> attendanceFiles,
         loadedSalesFiles |-> salesFiles,
         heap |-> sales.heap,
         attendanceFiles |-> attendance.refs,
         salesFiles |-> sales.refs,
         filter |-> NoFilter,
         recomputed |-> 0,
         consolidatedData |-> 0]))

InitView ==
    /\ ComponentIdle
    /\ pure \in {viewOfLists(attendanceFiles, salesFiles) :
                    attendanceFiles \in ViewAttendanceLists, salesFiles \in ViewSalesLists}

\* a render with the filter `filter` recomputes activeData
recomputeActiveData(filter) ==
    /\ pure.recomputed < MaxRecomputations
    /\ \E view \in {activeDataAt(pure.heap, pure.attendanceFiles, pure.salesFiles, filter)} :
           pure' = [pure EXCEPT !.heap = view.heap,
                                !.filter = filter,
                                !.recomputed = @ + 1,
                                !.consolidatedData = view.ref]
    /\ UNCHANGED componentVars

NextView == \E filter \in Filters : recomputeActiveData(filter)

SpecView == InitView /\ [][NextView]_vars

\* the view computed on the objects is the view computed on the values
viewAgrees ==
    consolidatedDataAt(pure.heap, pure.consolidatedData)
        = consolidatedDataOf(pure.loadedAttendanceFiles, pure.loadedSalesFiles, pure.filter)

\* C29: after any number of recomputations of the derived view (date
\* filter, mergeAttendanceData, mergeSalesData, consolidation), every loaded
\* file read through its reference - name, content, dateRange and parsed
\* records with their buckets and totals - is what it was when the file was
\* appended.
C29_RecomputationKeepsLoadedFiles ==
    /\ [i \in 1..Len(pure.attendanceFiles) |->
           attendanceFileAt(pure.heap, pure.attendanceFiles[i])] = pure.loadedAttendanceFiles
    /\ [i \in 1..Len(pure.salesFiles) |->
           salesFileAt(pure.heap, pure.salesFiles[i])] = pure.loadedSalesFiles

\* the view of two attendance files with Ana's hour 8 in both and of two
\* sales files has been recomputed twice, the second time with no filter
C29_Witness ==
    /\ pure.recomputed = MaxRecomputations
    /\ pure.filter = NoFilter
    /\ Len(pure.attendanceFiles) = 2
    /\ Len(pure.salesFiles) = 2
    /\ \A i \in 1..2 : \E j \in 1..Len(pure.loadedAttendanceFiles[i].parsedData) :
           LET person == pure.loadedAttendanceFiles[i].parsedData[j]
           IN  /\ person.salesperson = Ana
               /\ \E k \in 1..Len(person.hourly) : person.hourly[k].hour = 8
    /\ viewAgrees

-----------------------------------------------------------------------------
(* The date filter's test on its own: any file range and any filter.       *)

\* the days of the ranges: 1 to 8 January 2024
IntervalDays == {DateOf(2024, 1, d) : d \in 1..8}

\* the ranges parseDateRangeFromString returns: from the start of a day to
\* the end of the same or a later day
FileIntervals ==
    {[start |-> startOfDay(r.first), end |-> endOfDay(r.last)] :
        r \in {q \in [first : IntervalDays, last : IntervalDays] : q.first <= q.last}}

\* the filters of the calendar: one day, or two days in order or the same
IntervalFilters ==
    {[from |-> a, to |-> NoDate] : a \in IntervalDays}
    \cup {f \in [from : IntervalDays, to : IntervalDays] : f.from <= f.to}

InitFilter ==
    /\ ComponentIdle
    /\ pure \in {[done |-> FALSE, file |-> [dateRange |-> range], filter |-> filter,
                   selected |-> FALSE] :
                    range \in FileIntervals, filter \in IntervalFilters}

\* the predicate of loadedAttendanceFiles.filter(...) is called for the file
callFileInFilter ==
    /\ ~pure.done
    /\ pure' = [pure EXCEPT !.done = TRUE, !.selected = fileInFilter(pure.file, pure.filter)]
    /\ UNCHANGED componentVars

NextFilter == callFileInFilter

SpecFilter == InitFilter /\ [][NextFilter]_vars

\* C30: for a file range with start <= end and a filter with from <= to,
\* the three tests of the date filter select the file exactly when
\* file.start <= filterEnd and file.end >= filterStart, the filter reaching
\* from the first instant of its first day to the last of its last day;
\* that is, exactly when the file and the filter share a calendar day.
C30_FilterIsIntervalIntersection ==
    pure.done =>
        LET filterStart == dayOf(pure.filter.from) * HoursPerDay
            filterEnd == (lastDayOf(pure.filter) + 1) * HoursPerDay - 1
            range == pure.file.dateRange
        IN  /\ pure.selected <=> (range.start <= filterEnd /\ range.end >= filterStart)
            /\ pure.selected <=>
                   \E day \in dayOf(range.start)..dayOf(range.end) :
                       dayOf(pure.filter.from) <= day /\ day <= lastDayOf(pure.filter)

\* a file that starts before the filter and ends after it is selected
C30_Witness ==
    /\ pure.done
    /\ pure.selected
    /\ dayOf(pure.file.dateRange.start) < dayOf(pure.filter.from)
    /\ dayOf(pure.file.dateRange.end) > lastDayOf(pure.filter)


=============================================================================
